---- MODULE Spec2Model ----
(***************************************************************************)
(* The client of the magnet-shapes game: the Game module (js/game.js), the *)
(* coordinator (js/main.js) and the browser's animation-frame queue that   *)
(* drives the two animation loops of the Game module.                      *)
(*                                                                         *)
(* Snapshots are JavaScript objects: the model keeps them in a heap that   *)
(* is indexed by reference, so that "the Scene Model is the snapshot of    *)
(* message k" is a statement about references, and in-place writes         *)
(* (animation ticks, the turn patch) change the object they really change. *)
(* The real snapshot of the k-th received message has the reference 2k,    *)
(* the deep copy handleMagnetPlaced makes of it has the reference 2k+1.    *)
(***************************************************************************)
EXTENDS Integers, Sequences, FiniteSets, TLC

VARIABLES
    currentSessionId,   \* main.js: the live-session guard ("none" is null)
    gameState,          \* game.js: reference of the Scene Model (NullRef is null)
    heap,               \* the live snapshot objects, by reference
    myPlayerId,         \* game.js: local player identity ("none" is null)
    animatingMagnets,   \* game.js: the in-flight movement list
    animationFrameId,   \* game.js: id of the last requested frame (0 is null)
    rafQueue,           \* browser: the callbacks requested for the next frame
    nextRafId,          \* browser: the next requestAnimationFrame handle
    now,                \* browser: performance.now(), in ms
    visibleScreens,     \* main.js: the screens whose 'hidden' class is off
    modalHidden,        \* main.js: gameOverModal has the class 'hidden'
    winnerText,         \* main.js: elements.winnerName.textContent
    notice,             \* game.js: the last text handed to showMessage
    outbox,             \* part_000: commands handed to WebSocketClient
    wire,               \* browser: the commands the socket has transmitted
    nmsg,               \* number of server messages dispatched so far
    lastMsg,            \* the last server message dispatched (type, batch size)
    pointer,            \* history: the pointer event the last step handled, if any
    seqs,               \* history: one record per submitted animation sequence
    expected,           \* history: value of the last snapshot received, turn patches applied
    canvas,             \* game.js: what the last render() left on the canvas
    dateNow,            \* browser: Date.now(), in ms
    renders,            \* history: number of render() calls observed
    socket,             \* part_000: state of the WebSocket held ("none" is null)
    isConnected,        \* part_000: the connection flag
    reconnectAttempts,  \* part_000: the reconnect counter
    reconnectTimers,    \* browser: pending setTimeout(connect, RECONNECT_DELAY) timers
    connectionStatus,   \* main.js: the class of the connectivity indicator
    reconnects,         \* history: connect() calls made by timers since the last open
    alertText,          \* browser: the text of the last alert()
    requests,           \* history: number of lobby requests handled
    request,            \* history: the last lobby request handled
    closing,            \* browser: sockets the client closed whose close event is due
    disconnects,        \* history: number of disconnect() calls
    rawLog              \* history: the frames handleMessage has received, in order

vars == <<currentSessionId, gameState, heap, myPlayerId, animatingMagnets,
          animationFrameId, rafQueue, nextRafId, now, visibleScreens,
          modalHidden, winnerText, notice, outbox, wire, nmsg, lastMsg, pointer,
          seqs, expected, canvas, dateNow, renders, socket, isConnected,
          reconnectAttempts, reconnectTimers, connectionStatus, reconnects,
          alertText, requests, request, closing, disconnects, rawLog>>

\* The state of the Game module and of the coordinator's session handling.
client == <<currentSessionId, gameState, heap, myPlayerId, animatingMagnets,
            animationFrameId, rafQueue, nextRafId, now, visibleScreens,
            modalHidden, winnerText, notice, outbox, wire, nmsg, lastMsg, pointer,
            seqs, expected>>

\* The canvas, the transport and the lobby form: what the message handlers,
\* the leave handlers, the pointer events and the animation loops leave alone.
aside == <<canvas, dateNow, renders, socket, isConnected, reconnectAttempts,
           reconnectTimers, connectionStatus, reconnects, alertText, requests,
           request, closing, disconnects>>

(***************************************************************************)
(* Bounds of the model.                                                    *)
(***************************************************************************)
MaxMsgs == 4        \* server messages dispatched in one run
MaxCmds == 2        \* commands the user issues in one run
MaxFrames == 4      \* animation frames of the shortest step in one run
MaxStep == 2        \* a frame comes 1..MaxStep steps after the previous one
TickMs == 300       \* length of the shortest step between two frames, in ms
MaxRenders == 3     \* render() calls observed in one run
MaxClockSteps == 4  \* quarter periods of the pulse the wall clock advances
MaxNetMsgs == 2     \* server messages delivered over the socket in one run
MaxRawFrames == 2    \* frames the socket delivers as text in one run
MaxDisconnects == 1  \* calls of disconnect() in one run
MaxRequests == 2    \* lobby requests the user makes in one run

MaxTime == MaxFrames * TickMs

(***************************************************************************)
(* Program constants.                                                      *)
(***************************************************************************)
NullRef == 0
ANIMATION_DURATION == 600
ClumpDuration == 600

\* Positions are held in units of 1/Cube, so that the cubic ease-out of a
\* progress elapsed/ANIMATION_DURATION is exact in integers.
Cube == ANIMATION_DURATION * ANIMATION_DURATION * ANIMATION_DURATION

Pos(x, y) == [x |-> x * Cube, y |-> y * Cube]

(***************************************************************************)
(* The server's data: players, magnets, snapshots, movements.              *)
(***************************************************************************)
Player(id, remaining) ==
    [id |-> id, name |-> id, connected |-> TRUE, remainingMagnets |-> remaining]

Magnet(id, owner, pos) == [id |-> id, playerId |-> owner, position |-> pos]

Snapshot(status, players, magnets, turn, winner) ==
    [sessionId |-> "S1", shapeType |-> "circle", status |-> status,
     players |-> players, magnets |-> magnets,
     currentTurnPlayerId |-> turn, winnerId |-> winner]

SnapWaiting == Snapshot("waiting", <<Player("p1", 1)>>, <<>>, "none", "none")

SnapPlayA ==
    Snapshot("playing", <<Player("p1", 1), Player("p2", 1)>>,
             <<Magnet("m1", "p1", Pos(2, 0))>>, "p1", "none")

SnapPlayB ==
    Snapshot("playing", <<Player("p1", 0), Player("p2", 1)>>,
             <<Magnet("m1", "p1", Pos(2, 0)), Magnet("m2", "p2", Pos(0, 1))>>,
             "p2", "none")

SnapFinished ==
    Snapshot("finished", <<Player("p1", 0), Player("p2", 0)>>,
             <<Magnet("m1", "p1", Pos(2, 0))>>, "p2", "p1")

\* The snapshot after a clump: the clumped tokens are gone from the board.
SnapAfterClump ==
    Snapshot("playing", <<Player("p1", 1), Player("p2", 3)>>,
             <<Magnet("m3", "p1", Pos(1, 1))>>, "p1", "none")

WaitingSnapshots == {SnapWaiting}
PlayingSnapshots == {SnapPlayA, SnapPlayB}
FinishedSnapshots == {SnapFinished}
RosterSnapshots == {SnapWaiting, SnapPlayA}
PostClumpSnapshots == {SnapAfterClump}
PlayerIds == {"p1", "p2"}

Movement(id, from, to) == [magnetId |-> id, fromPosition |-> from, toPosition |-> to]

\* The movement batches a token-placed message may carry: none, one movement
\* of a token of the snapshot, and a batch that also names an unknown token.
MovementBatches ==
    { <<>>,
      <<Movement("m1", Pos(0, 0), Pos(2, 0))>>,
      <<Movement("m9", Pos(1, 1), Pos(0, 1)), Movement("m1", Pos(1, 0), Pos(2, 0))>> }

ClumpBatches ==
    { <<>>,
      <<Magnet("m1", "p1", Pos(2, 0)), Magnet("m2", "p2", Pos(2, 1))>> }

NoSnapshot == Snapshot("none", <<>>, <<>>, "none", "none")

Min(a, b) == IF a < b THEN a ELSE b

(***************************************************************************)
(* Helpers over JavaScript arrays and the snapshot heap.                   *)
(***************************************************************************)
\* Array.prototype.findIndex on an id, 1-based; 0 when nothing matches.
FindIndex(arr, id) ==
    IF \E i \in DOMAIN arr : arr[i].id = id
    THEN CHOOSE i \in DOMAIN arr :
            arr[i].id = id /\ \A j \in 1..(i - 1) : arr[j].id # id
    ELSE 0

SeqRange(s) == {s[i] : i \in DOMAIN s}

\* The objects still referenced: by the Game module and by the completion
\* callbacks captured in pending animation loops.
LiveRefs(gs, queue) == ({gs} \cup {cb.snap : cb \in SeqRange(queue)}) \ {NullRef}

Restrict(h, refs) == [r \in refs |-> h[r]]

Store(h, ref, snap) == [r \in DOMAIN h \cup {ref} |-> IF r = ref THEN snap ELSE h[r]]

RealRef(k) == 2 * k

\* A copy that is the snapshot itself.
CopyRef_Shared(k) == 2 * k

CopyRef(k) == 2 * k + 1
MsgOf(ref) == ref \div 2

(***************************************************************************)
(* game.js: the Input Gate.                                                *)
(***************************************************************************)
canPlaceMagnet ==
    /\ gameState # NullRef
    /\ heap[gameState].status = "playing"
    /\ heap[gameState].currentTurnPlayerId = myPlayerId
    /\ animatingMagnets = <<>>
    /\ LET i == FindIndex(heap[gameState].players, myPlayerId)
       IN  i # 0 /\ heap[gameState].players[i].remainingMagnets > 0

(***************************************************************************)
(* game.js: a pointer event on the canvas.  inside is what the Mask Oracle *)
(* (Shapes.isInsideShape) reports for the point of the event.              *)
(***************************************************************************)
\* A send that does not look at the socket.
send_Always(command) ==
    /\ outbox' = Append(outbox, command)
    /\ wire' = Append(wire, command)

\* send(message): the command is handed over, and transmitted when the
\* socket is open; otherwise send returns false.
send(command) ==
    /\ outbox' = Append(outbox, command)
    /\ wire' = IF socket = "open" THEN Append(wire, command) ELSE wire

\* WebSocketClient.placeMagnet(position)
placeMagnet == send("PLACE_MAGNET")

\* A placement that does not ask the Mask Oracle.
attemptPlacement_Unmasked(inside) == placeMagnet /\ UNCHANGED notice

attemptPlacement(inside) ==
    IF ~inside
    THEN notice' = "outside-shape" /\ UNCHANGED <<outbox, wire>>
    ELSE placeMagnet /\ UNCHANGED notice

\* A pointer event that takes the token off the local player's count at once.
PointerEvent_Optimistic(inside) ==
    /\ "game" \in visibleScreens
    /\ Len(outbox) < MaxCmds
    /\ pointer' = IF inside THEN "inside" ELSE "outside"
    /\ IF ~canPlaceMagnet THEN UNCHANGED <<notice, outbox, wire, heap>>
       ELSE /\ attemptPlacement(inside)
            /\ heap' = IF inside
                       THEN [heap EXCEPT
                               ![gameState].players[
                                   FindIndex(heap[gameState].players, myPlayerId)
                               ].remainingMagnets = @ - 1]
                       ELSE heap
    /\ UNCHANGED <<currentSessionId, gameState, myPlayerId, animatingMagnets,
                   animationFrameId, rafQueue, nextRafId, now, visibleScreens,
                   modalHidden, winnerText, nmsg, lastMsg, seqs, expected>>
    /\ UNCHANGED <<aside, rawLog>>

\* The body the two listeners share; the canvas is part of the game screen.
PointerEvent(inside) ==
    /\ "game" \in visibleScreens
    /\ Len(outbox) < MaxCmds
    /\ pointer' = IF inside THEN "inside" ELSE "outside"
    /\ IF ~canPlaceMagnet THEN UNCHANGED <<notice, outbox, wire>>
                           ELSE attemptPlacement(inside)
    /\ UNCHANGED <<currentSessionId, gameState, heap, myPlayerId, animatingMagnets,
                   animationFrameId, rafQueue, nextRafId, now, visibleScreens,
                   modalHidden, winnerText, nmsg, lastMsg, seqs, expected>>
    /\ UNCHANGED <<aside, rawLog>>

handleCanvasClick(inside) == PointerEvent(inside)

handleCanvasTouchStart(inside) == PointerEvent(inside)

(***************************************************************************)
(* game.js: the animation loops.  A loop is a closure that the browser     *)
(* calls once per frame; st is the part of the state a callback can touch. *)
(***************************************************************************)
\* A loop that does not ask for its next frame.
RequestFrame_Dropped(st, cb) == st

\* animationFrameId = requestAnimationFrame(animate)
RequestFrame(st, cb) ==
    [st EXCEPT !.rafQueue = Append(@, [cb EXCEPT !.id = st.nextRafId]),
               !.animationFrameId = st.nextRafId,
               !.nextRafId = @ + 1]

\* An ease-out whose progress is not capped at 1.
EaseOut_Unclamped(elapsed) ==
    Cube - (ANIMATION_DURATION - elapsed) * (ANIMATION_DURATION - elapsed)
               * (ANIMATION_DURATION - elapsed)

\* The ease-out of a movement, 1 - (1 - p)^3 with p = min(1, elapsed / duration),
\* as a numerator over Cube.
EaseOut(elapsed) ==
    LET p == Min(elapsed, ANIMATION_DURATION)
    IN  Cube - (ANIMATION_DURATION - p) * (ANIMATION_DURATION - p) * (ANIMATION_DURATION - p)

\* from + (to - from) * easeProgress
Interpolate(from, to, ease) == from + ((to - from) \div Cube) * ease

\* A loop body that gives up after the first movement of the list.
WritePositions_FirstOnly(magnets, anims, k, ease) ==
    LET i == FindIndex(magnets, anims[1].magnetId)
    IN  IF i = 0 THEN magnets
        ELSE [magnets EXCEPT
                ![i].position =
                    [x |-> Interpolate(anims[1].fromPos.x, anims[1].toPos.x, ease),
                     y |-> Interpolate(anims[1].fromPos.y, anims[1].toPos.y, ease)]]

\* The body of the tick's for loop, for the anims k..Len(anims) in order.
RECURSIVE WritePositions(_, _, _, _)
WritePositions(magnets, anims, k, ease) ==
    IF k > Len(anims) THEN magnets
    ELSE LET anim == anims[k]
             i == FindIndex(magnets, anim.magnetId)
             moved == [x |-> Interpolate(anim.fromPos.x, anim.toPos.x, ease),
                       y |-> Interpolate(anim.fromPos.y, anim.toPos.y, ease)]
         IN  WritePositions(
                 IF i = 0 THEN magnets ELSE [magnets EXCEPT ![i].position = moved],
                 anims, k + 1, ease)

\* The completion callback both handlers pass: Game.updateState(message.gameState).
OnComplete(st, cb) ==
    [st EXCEPT !.gameState = cb.snap,
               !.seqs[cb.seq].cb = @ + 1]

\* animateMovements.animate(currentTime)
MoveTick(st, cb, t) ==
    LET elapsed == t - cb.startTime
        ease == EaseOut(elapsed)
        anims == st.animatingMagnets
        ticked == [st EXCEPT !.seqs[cb.seq].ticks = @ + 1]
    IN  IF anims # <<>> /\ st.gameState = NullRef
        THEN \* gameState.magnets of null: the callback throws, the loop ends
             [ticked EXCEPT !.animatingMagnets[1].progress = ease,
                            !.seqs[cb.seq].state = "dead"]
        ELSE LET written ==
                     [ticked EXCEPT
                        !.animatingMagnets =
                            [i \in DOMAIN anims |-> [anims[i] EXCEPT !.progress = ease]],
                        !.heap = IF anims = <<>> THEN @
                                 ELSE [@ EXCEPT ![st.gameState].magnets =
                                          WritePositions(@, anims, 1, ease)]]
             IN  IF elapsed < ANIMATION_DURATION
                 THEN RequestFrame(written, cb)
                 ELSE OnComplete(
                          [written EXCEPT !.animatingMagnets = <<>>,
                                          !.animationFrameId = 0,
                                          !.seqs[cb.seq].state = "done"],
                          cb)

\* A collection loop that ends without calling onComplete.
ClumpTick_NoCallback(st, cb, t) ==
    LET elapsed == t - cb.startTime
        ticked == [st EXCEPT !.seqs[cb.seq].ticks = @ + 1]
    IN  IF st.gameState = NullRef
        THEN [ticked EXCEPT !.seqs[cb.seq].state = "dead"]
        ELSE IF elapsed < ClumpDuration
             THEN RequestFrame(ticked, cb)
             ELSE [ticked EXCEPT !.animationFrameId = 0,
                                 !.seqs[cb.seq].state = "done"]

\* A collection loop that takes a token off the board while it runs.
ClumpTick_Mutating(st, cb, t) ==
    LET elapsed == t - cb.startTime
        ticked == [st EXCEPT !.seqs[cb.seq].ticks = @ + 1]
    IN  IF st.gameState = NullRef
        THEN [ticked EXCEPT !.seqs[cb.seq].state = "dead"]
        ELSE IF elapsed < ClumpDuration
             THEN RequestFrame(
                      [ticked EXCEPT !.heap[st.gameState].magnets =
                                        IF @ = <<>> THEN @ ELSE Tail(@)],
                      cb)
             ELSE OnComplete(
                      [ticked EXCEPT !.animationFrameId = 0,
                                     !.seqs[cb.seq].state = "done"],
                      cb)

\* animateClumpCollection.animate(currentTime)
ClumpTick(st, cb, t) ==
    LET elapsed == t - cb.startTime
        ticked == [st EXCEPT !.seqs[cb.seq].ticks = @ + 1]
    IN  IF st.gameState = NullRef
        THEN \* gameState.shapeType of null: the callback throws, the loop ends
             [ticked EXCEPT !.seqs[cb.seq].state = "dead"]
        ELSE IF elapsed < ClumpDuration
             THEN RequestFrame(ticked, cb)
             ELSE OnComplete(
                      [ticked EXCEPT !.animationFrameId = 0,
                                     !.seqs[cb.seq].state = "done"],
                      cb)

\* The browser runs the callbacks of one frame in the order they were requested.
RECURSIVE RunCallbacks(_, _, _)
RunCallbacks(cbs, st, t) ==
    IF cbs = <<>> THEN st
    ELSE RunCallbacks(Tail(cbs),
                      IF Head(cbs).kind = "move" THEN MoveTick(st, Head(cbs), t)
                                                 ELSE ClumpTick(st, Head(cbs), t),
                      t)

(***************************************************************************)
(* main.js: the coordinator.  Every handler is one action; Dispatched      *)
(* records the message in the history variables.                           *)
(***************************************************************************)
\* The messages whose handler hands message.gameState to Game.updateState.
\* (A game-over carries a snapshot too; handleGameOver never reads it.)
CommittingTypes ==
    {"SESSION_CREATED", "SESSION_JOINED", "PLAYER_JOINED", "PLAYER_LEFT",
     "GAME_STARTED", "MAGNET_PLACED", "MAGNETS_CLUMPED"}

Dispatched(type, batch, arg, snap) ==
    /\ nmsg < MaxMsgs
    /\ nmsg' = nmsg + 1
    /\ lastMsg' = [type |-> type, batch |-> batch, arg |-> arg]
    /\ expected' = IF type \in CommittingTypes THEN snap
                   ELSE IF type = "TURN_CHANGED" /\ expected # NoSnapshot
                        THEN [expected EXCEPT !.currentTurnPlayerId = arg]
                        ELSE expected
    /\ pointer' = "none"
    /\ UNCHANGED aside

\* Game.updateState(ref), the only statement of a handler that touches the
\* Game module's state, with ref the message's snapshot, stored as snap.
Commit(ref, snap) ==
    /\ gameState' = ref
    /\ heap' = Restrict(Store(heap, ref, snap), LiveRefs(ref, rafQueue))
    /\ UNCHANGED <<animatingMagnets, animationFrameId, rafQueue, nextRafId, now, seqs>>

\* A showScreen that does not hide the other screens.
showScreen_Adding(screen) == visibleScreens' = visibleScreens \cup {screen}

\* showScreen(screen)
showScreen(screen) == visibleScreens' = {screen}

\* const myPlayer = players[0] / players[players.length - 1]
FirstPlayer(players) == players[1]

\* A join that takes the first player of the roster for the local one.
LastPlayer_First(players) == players[1]

LastPlayer(players) == players[Len(players)]

handleSessionCreated(s) ==
    /\ Dispatched("SESSION_CREATED", 0, "none", s)
    /\ currentSessionId' = s.sessionId
    /\ myPlayerId' = IF Len(s.players) > 0 THEN FirstPlayer(s.players).id
                                           ELSE myPlayerId
    /\ Commit(RealRef(nmsg + 1), s)
    /\ showScreen("waiting")
    /\ notice' = "session-created"
    /\ UNCHANGED <<modalHidden, winnerText, outbox, wire>>

handleSessionJoined(s) ==
    /\ Dispatched("SESSION_JOINED", 0, "none", s)
    /\ currentSessionId' = s.sessionId
    /\ myPlayerId' = IF Len(s.players) > 0 THEN LastPlayer(s.players).id
                                           ELSE myPlayerId
    /\ Commit(RealRef(nmsg + 1), s)
    /\ IF s.status = "playing" THEN showScreen("game") ELSE showScreen("waiting")
    /\ notice' = "joined"
    /\ UNCHANGED <<modalHidden, winnerText, outbox, wire>>

handlePlayerJoined(s) ==
    /\ Dispatched("PLAYER_JOINED", 0, "none", s)
    /\ Commit(RealRef(nmsg + 1), s)
    /\ IF s.status = "playing"
       THEN showScreen("game") /\ notice' = "game-started"
       ELSE UNCHANGED visibleScreens /\ notice' = "player-joined"
    /\ UNCHANGED <<currentSessionId, myPlayerId, modalHidden, winnerText, outbox, wire>>

\* A player-left handler that also drops the in-flight movement list.
handlePlayerLeft_Clearing(s) ==
    /\ Dispatched("PLAYER_LEFT", 0, "none", s)
    /\ gameState' = RealRef(nmsg + 1)
    /\ heap' = Restrict(Store(heap, gameState', s), LiveRefs(gameState', rafQueue))
    /\ animatingMagnets' = <<>>
    /\ notice' = "player-left"
    /\ UNCHANGED <<animationFrameId, rafQueue, nextRafId, now, seqs>>
    /\ UNCHANGED <<currentSessionId, myPlayerId, visibleScreens, modalHidden,
                   winnerText, outbox, wire>>

handlePlayerLeft(s) ==
    /\ Dispatched("PLAYER_LEFT", 0, "none", s)
    /\ Commit(RealRef(nmsg + 1), s)
    /\ notice' = "player-left"
    /\ UNCHANGED <<currentSessionId, myPlayerId, visibleScreens, modalHidden,
                   winnerText, outbox, wire>>

handleGameStarted(s) ==
    /\ Dispatched("GAME_STARTED", 0, "none", s)
    /\ Commit(RealRef(nmsg + 1), s)
    /\ showScreen("game")
    /\ notice' = "game-started"
    /\ UNCHANGED <<currentSessionId, myPlayerId, modalHidden, winnerText, outbox, wire>>

\* The loop of handleMagnetPlaced over message.movements, from movement k on.
RECURSIVE ResetToOrigins(_, _, _)
ResetToOrigins(magnets, movements, k) ==
    IF k > Len(movements) THEN magnets
    ELSE LET i == FindIndex(magnets, movements[k].magnetId)
         IN  ResetToOrigins(
                 IF i = 0 THEN magnets
                 ELSE [magnets EXCEPT ![i].position = movements[k].fromPosition],
                 movements, k + 1)

\* A copy that leaves the tokens where the snapshot has them.
StateBeforeMovement_AtDestination(s, movements) == s

\* stateBeforeMovement: the deep copy of the snapshot, tokens at their origins.
StateBeforeMovement(s, movements) ==
    [s EXCEPT !.magnets = ResetToOrigins(@, movements, 1)]

\* animatingMagnets = movements.map(...)
AnimsOf(movements) ==
    [i \in DOMAIN movements |->
        [magnetId |-> movements[i].magnetId,
         fromPos |-> movements[i].fromPosition,
         toPos |-> movements[i].toPosition,
         progress |-> 0]]

NewSequence(kind) ==
    [kind |-> kind, msg |-> nmsg + 1, stale |-> FALSE, ticks |-> 0, cb |-> 0,
     state |-> "running"]

\* The first requestAnimationFrame(animate) of a sequence submitted now.
Submit(kind) ==
    /\ rafQueue' = Append(rafQueue,
                          [id |-> nextRafId, kind |-> kind, startTime |-> now,
                           snap |-> RealRef(nmsg + 1), seq |-> Len(seqs) + 1])
    /\ animationFrameId' = nextRafId
    /\ nextRafId' = nextRafId + 1
    /\ seqs' = Append(seqs, NewSequence(kind))

\* A sequence with nothing to animate: onComplete() is called at once.
Immediate(kind) ==
    seqs' = Append(seqs, [NewSequence(kind) EXCEPT !.cb = 1, !.state = "skipped"])

\* A test that takes every batch for one with movements.
HasMovements_Always(movements) == TRUE

\* message.movements && message.movements.length > 0
HasMovements(movements) == movements # <<>>

handleMagnetPlaced(s, movements) ==
    LET owner == s.magnets[Len(s.magnets)].playerId
        known == FindIndex(s.players, owner) # 0
    IN  /\ Dispatched("MAGNET_PLACED", Len(movements), "none", s)
        /\ IF HasMovements(movements)
           THEN /\ gameState' = CopyRef(nmsg + 1)
                /\ Submit("move")
                /\ heap' = Restrict(
                              Store(Store(heap, RealRef(nmsg + 1), s),
                                    CopyRef(nmsg + 1), StateBeforeMovement(s, movements)),
                              LiveRefs(gameState', rafQueue'))
                /\ animatingMagnets' = AnimsOf(movements)
                /\ notice' = IF known /\ owner # myPlayerId THEN "placed-attracting"
                             ELSE IF known THEN "attracting" ELSE notice
                /\ UNCHANGED now
           ELSE /\ Commit(RealRef(nmsg + 1), s)
                /\ notice' = IF known /\ owner # myPlayerId THEN "placed" ELSE notice
        /\ UNCHANGED <<currentSessionId, myPlayerId, visibleScreens, modalHidden,
                       winnerText, outbox, wire>>

handleMagnetsClumped(s, clumped, collector) ==
    /\ Dispatched("MAGNETS_CLUMPED", Len(clumped), collector, s)
    /\ notice' = IF collector = myPlayerId THEN "you-collected"
                 ELSE IF FindIndex(s.players, collector) # 0 THEN "collected"
                 ELSE notice
    /\ IF clumped = <<>>
       THEN /\ gameState' = RealRef(nmsg + 1)
            /\ heap' = Restrict(Store(heap, gameState', s), LiveRefs(gameState', rafQueue))
            /\ Immediate("clump")
            /\ UNCHANGED <<animatingMagnets, animationFrameId, rafQueue, nextRafId, now>>
       ELSE IF gameState = NullRef
       THEN \* gameState.players of null: animateClumpCollection throws
            UNCHANGED <<gameState, heap, animatingMagnets, animationFrameId,
                        rafQueue, nextRafId, now, seqs>>
       ELSE /\ Submit("clump")
            /\ heap' = Restrict(Store(heap, RealRef(nmsg + 1), s),
                                LiveRefs(gameState, rafQueue'))
            /\ UNCHANGED <<gameState, animatingMagnets, now>>
    /\ UNCHANGED <<currentSessionId, myPlayerId, visibleScreens, modalHidden,
                   winnerText, outbox, wire>>

\* A rejection that also throws the Scene Model away.
handlePlacementInvalid_Discarding ==
    /\ Dispatched("PLACEMENT_INVALID", 0, "none", NoSnapshot)
    /\ notice' = "reason"
    /\ gameState' = NullRef
    /\ heap' = Restrict(heap, LiveRefs(NullRef, rafQueue))
    /\ UNCHANGED <<currentSessionId, myPlayerId, animatingMagnets,
                   animationFrameId, rafQueue, nextRafId, now, visibleScreens,
                   modalHidden, winnerText, outbox, wire, seqs>>

handlePlacementInvalid ==
    /\ Dispatched("PLACEMENT_INVALID", 0, "none", NoSnapshot)
    /\ notice' = "reason"
    /\ UNCHANGED <<currentSessionId, gameState, heap, myPlayerId, animatingMagnets,
                   animationFrameId, rafQueue, nextRafId, now, visibleScreens,
                   modalHidden, winnerText, outbox, wire, seqs>>

\* A turn change that replaces the snapshot by one holding the turn alone.
handleTurnChanged_Replacing(turn) ==
    /\ Dispatched("TURN_CHANGED", 0, turn, NoSnapshot)
    /\ heap' = IF gameState # NullRef
               THEN [heap EXCEPT ![gameState] =
                        [NoSnapshot EXCEPT !.currentTurnPlayerId = turn]]
               ELSE heap
    /\ notice' = IF turn = myPlayerId THEN "your-turn" ELSE notice
    /\ UNCHANGED <<currentSessionId, gameState, myPlayerId, animatingMagnets,
                   animationFrameId, rafQueue, nextRafId, now, visibleScreens,
                   modalHidden, winnerText, outbox, wire, seqs>>

handleTurnChanged(turn) ==
    /\ Dispatched("TURN_CHANGED", 0, turn, NoSnapshot)
    /\ heap' = IF gameState # NullRef
               THEN [heap EXCEPT ![gameState].currentTurnPlayerId = turn]
               ELSE heap
    /\ notice' = IF turn = myPlayerId THEN "your-turn" ELSE notice
    /\ UNCHANGED <<currentSessionId, gameState, myPlayerId, animatingMagnets,
                   animationFrameId, rafQueue, nextRafId, now, visibleScreens,
                   modalHidden, winnerText, outbox, wire, seqs>>

\* A handler that does not look at the guard.
SessionActive_Unchecked == TRUE

\* The guard of handleGameOver: currentSessionId is truthy.
SessionActive == currentSessionId # "none"

WinnerText(winnerId, winnerName) ==
    IF winnerId = myPlayerId THEN "You Win!"
    ELSE IF winnerName = "p1" THEN "p1 Wins!" ELSE "p2 Wins!"

handleGameOver(s, winnerId) ==
    /\ Dispatched("GAME_OVER", 0, winnerId, s)
    /\ IF ~SessionActive
       THEN UNCHANGED <<winnerText, modalHidden>>
       ELSE /\ winnerText' = WinnerText(winnerId, winnerId)
            /\ modalHidden' = FALSE
    /\ UNCHANGED <<currentSessionId, gameState, heap, myPlayerId, animatingMagnets,
                   animationFrameId, rafQueue, nextRafId, now, visibleScreens,
                   notice, outbox, wire, seqs>>

handleError ==
    /\ Dispatched("ERROR", 0, "none", NoSnapshot)
    /\ notice' = "error"
    /\ UNCHANGED <<currentSessionId, gameState, heap, myPlayerId, animatingMagnets,
                   animationFrameId, rafQueue, nextRafId, now, visibleScreens,
                   modalHidden, winnerText, outbox, wire, seqs>>

(***************************************************************************)
(* game.js: reset, and main.js: the two ways of leaving a session.         *)
(***************************************************************************)
\* A reset that forgets the frame it has requested.
CancelFrame_Forgotten(queue, id) == queue

\* cancelAnimationFrame(id): the callback requested under that handle is dropped.
CancelFrame(queue, id) == SelectSeq(queue, LAMBDA cb : cb.id # id)

\* A reset that keeps the local identity.
reset_KeepingIdentity ==
    /\ gameState' = NullRef
    /\ UNCHANGED myPlayerId
    /\ animatingMagnets' = <<>>
    /\ rafQueue' = IF animationFrameId # 0 THEN CancelFrame(rafQueue, animationFrameId)
                   ELSE rafQueue
    /\ animationFrameId' = 0
    /\ heap' = Restrict(heap, LiveRefs(NullRef, rafQueue'))
    /\ seqs' = [i \in DOMAIN seqs |-> [seqs[i] EXCEPT !.stale = TRUE]]
    /\ UNCHANGED <<nextRafId, now>>

reset ==
    /\ gameState' = NullRef
    /\ myPlayerId' = "none"
    /\ animatingMagnets' = <<>>
    /\ rafQueue' = IF animationFrameId # 0 THEN CancelFrame(rafQueue, animationFrameId)
                   ELSE rafQueue
    /\ animationFrameId' = 0
    /\ heap' = Restrict(heap, LiveRefs(NullRef, rafQueue'))
    /\ seqs' = [i \in DOMAIN seqs |->
                  [seqs[i] EXCEPT
                     !.stale = TRUE,
                     !.state = IF /\ animationFrameId # 0
                                  /\ \E cb \in SeqRange(rafQueue) :
                                        cb.id = animationFrameId /\ cb.seq = i
                               THEN "cancelled" ELSE @]]
    /\ UNCHANGED <<nextRafId, now>>

resetToLobby ==
    /\ currentSessionId' = "none"
    /\ reset
    /\ modalHidden' = TRUE
    /\ showScreen("lobby")

\* WebSocketClient.leaveSession()
leaveSession == send("LEAVE_SESSION")

\* The leave buttons belong to the waiting room and to the game screen, the
\* back-to-lobby button to the game-over modal.
handleLeaveSession ==
    /\ visibleScreens \cap {"waiting", "game"} # {}
    /\ Len(outbox) < MaxCmds
    /\ leaveSession
    /\ resetToLobby
    /\ expected' = NoSnapshot
    /\ pointer' = "none"
    /\ UNCHANGED <<winnerText, notice, nmsg, lastMsg>>
    /\ UNCHANGED <<aside, rawLog>>

handleBackToLobby ==
    /\ ~modalHidden
    /\ Len(outbox) < MaxCmds
    /\ leaveSession
    /\ resetToLobby
    /\ expected' = NoSnapshot
    /\ pointer' = "none"
    /\ UNCHANGED <<winnerText, notice, nmsg, lastMsg>>
    /\ UNCHANGED <<aside, rawLog>>

(***************************************************************************)
(* The browser: one animation frame dt ms after the previous one.          *)
(***************************************************************************)
Frame(dt) ==
    /\ rafQueue # <<>>
    /\ now + dt <= MaxTime
    /\ LET st == RunCallbacks(rafQueue,
                              [gameState |-> gameState, heap |-> heap,
                               animatingMagnets |-> animatingMagnets,
                               animationFrameId |-> animationFrameId,
                               rafQueue |-> <<>>, nextRafId |-> nextRafId,
                               seqs |-> seqs],
                              now + dt)
       IN  /\ gameState' = st.gameState
           /\ heap' = Restrict(st.heap, LiveRefs(st.gameState, st.rafQueue))
           /\ animatingMagnets' = st.animatingMagnets
           /\ animationFrameId' = st.animationFrameId
           /\ rafQueue' = st.rafQueue
           /\ nextRafId' = st.nextRafId
           /\ seqs' = st.seqs
    /\ now' = now + dt
    /\ UNCHANGED <<currentSessionId, myPlayerId, visibleScreens, modalHidden,
                   winnerText, notice, outbox, wire, nmsg, lastMsg, expected>>
    /\ pointer' = "none"
    /\ UNCHANGED <<aside, rawLog>>

(***************************************************************************)
(* game.js: the renderer.  The canvas is written and never read: it is     *)
(* kept as the list of the draw commands of the last render() call, and    *)
(* the specifications of the coordinator leave it out.  The renderer works *)
(* on whole pixels; distances are compared by their squares, which for     *)
(* whole pixels orders them as Math.sqrt does.                             *)
(***************************************************************************)
CLUMP_THRESHOLD == 30
ATTRACTION_RANGE == 150

\* The pulse 0.6 + Math.sin(Date.now() / 200) * 0.2 is read at the quarter
\* periods of its sine, 100 * pi ms apart.
PulseQuarterMs == 314

At(x, y) == [x |-> x, y |-> y]

Draw(op, from, to, level, extra) ==
    [op |-> op, from |-> from, to |-> to, level |-> level, extra |-> extra]

\* dx * dx + dy * dy
DistanceSq(m1, m2) ==
    LET dx == m2.position.x - m1.position.x
        dy == m2.position.y - m1.position.y
    IN  dx * dx + dy * dy

\* A highlight that leaves the threshold itself out.
Clumped_Exclusive(d2) == d2 < CLUMP_THRESHOLD * CLUMP_THRESHOLD

\* distance <= CLUMP_THRESHOLD
Clumped(d2) == d2 <= CLUMP_THRESHOLD * CLUMP_THRESHOLD

\* distance < ATTRACTION_RANGE && distance > CLUMP_THRESHOLD
Attracting(d2) ==
    /\ d2 < ATTRACTION_RANGE * ATTRACTION_RANGE
    /\ d2 > CLUMP_THRESHOLD * CLUMP_THRESHOLD

\* Math.min(1 / (normalizedDist * normalizedDist + 0.2), 3), in thousandths.
ClampedStrength(d2) ==
    Min((1000 * ATTRACTION_RANGE * ATTRACTION_RANGE)
            \div (d2 + (ATTRACTION_RANGE * ATTRACTION_RANGE) \div 5),
        3000)

\* 0.6 + Math.sin(Date.now() / 200) * 0.2, in thousandths.
Pulse(t) ==
    LET quarter == (t \div PulseQuarterMs) % 4
    IN  IF quarter = 1 THEN 800 ELSE IF quarter = 3 THEN 400 ELSE 600

\* The body of the two loops of drawAttractionLines for one pair of tokens.
DrawPair(m1, m2, t) ==
    LET d2 == DistanceSq(m1, m2)
    IN  (IF Attracting(d2)
         THEN <<Draw("attraction", m1.position, m2.position, ClampedStrength(d2),
                     IF d2 < 4 * CLUMP_THRESHOLD * CLUMP_THRESHOLD THEN 1 ELSE 0)>>
         ELSE <<>>)
        \o (IF Clumped(d2)
            THEN <<Draw("clump", m1.position, m2.position, Pulse(t), d2)>>
            ELSE <<>>)

\* The loops of drawAttractionLines, from the pair (i, j) on.
RECURSIVE DrawPairsFrom(_, _, _, _)
DrawPairsFrom(magnets, i, j, t) ==
    IF i > Len(magnets) THEN <<>>
    ELSE IF j > Len(magnets) THEN DrawPairsFrom(magnets, i + 1, i + 2, t)
    ELSE DrawPair(magnets[i], magnets[j], t) \o DrawPairsFrom(magnets, i, j + 1, t)

drawAttractionLines(magnets, t) ==
    IF Len(magnets) < 2 THEN <<>> ELSE DrawPairsFrom(magnets, 1, 2, t)

\* drawMagnet: the token in its owner's colour, ringed when it is the local player's.
drawMagnet(magnet, players, me) ==
    Draw("magnet", magnet.position, magnet.position,
         FindIndex(players, magnet.playerId), IF magnet.playerId = me THEN 1 ELSE 0)

drawMagnets(s, me) == [i \in DOMAIN s.magnets |-> drawMagnet(s.magnets[i], s.players, me)]

\* What render() draws for the Scene Model s at the time t.
DrawCommands(s, me, t) ==
    <<Draw("clear", At(0, 0), At(0, 0), 0, 0),
      Draw("background", At(0, 0), At(0, 0), 0, 0),
      Draw(s.shapeType, At(0, 0), At(0, 0), 0, 0)>>
    \o drawMagnets(s, me)
    \o drawAttractionLines(s.magnets, t)

\* A render that takes the tokens it has drawn off the board.
render_Clearing ==
    /\ gameState # NullRef
    /\ canvas' = [drawn |-> DrawCommands(heap[gameState], myPlayerId, dateNow),
                  disabled |-> ~canPlaceMagnet]
    /\ heap' = [heap EXCEPT ![gameState].magnets = <<>>]
    /\ UNCHANGED <<gameState, myPlayerId, animatingMagnets, animationFrameId,
                   rafQueue, nextRafId>>

render ==
    /\ IF gameState = NullRef
       THEN UNCHANGED canvas
       ELSE canvas' = [drawn |-> DrawCommands(heap[gameState], myPlayerId, dateNow),
                       disabled |-> ~canPlaceMagnet]
    /\ UNCHANGED <<gameState, heap, myPlayerId, animatingMagnets, animationFrameId,
                   rafQueue, nextRafId>>

(***************************************************************************)
(* part_000: the WebSocket client, and main.js: the three notifications it *)
(* raises.  disconnect() is exported and never called.                     *)
(***************************************************************************)
MAX_RECONNECT_ATTEMPTS == 5

\* updateConnectionStatus(status)
updateConnectionStatus(status) == connectionStatus' = status

onConnect == updateConnectionStatus("connected") /\ UNCHANGED client

\* A disconnect notification that also sends the user back to the lobby.
onDisconnect_ToLobby ==
    /\ updateConnectionStatus("disconnected")
    /\ visibleScreens' = {"lobby"}
    /\ UNCHANGED <<currentSessionId, gameState, heap, myPlayerId, animatingMagnets,
                   animationFrameId, rafQueue, nextRafId, now, modalHidden,
                   winnerText, notice, outbox, wire, nmsg, lastMsg, pointer, seqs,
                   expected>>

onDisconnect == updateConnectionStatus("disconnected") /\ UNCHANGED client

onError == updateConnectionStatus("disconnected") /\ UNCHANGED client

\* connect(): nothing when the socket is open, a new WebSocket otherwise.
connect == socket' = IF socket = "open" THEN socket ELSE "connecting"

handleOpen ==
    /\ socket = "connecting"
    /\ socket' = "open"
    /\ isConnected' = TRUE
    /\ reconnectAttempts' = 0
    /\ reconnects' = 0
    /\ onConnect
    /\ UNCHANGED <<reconnectTimers, canvas, dateNow, renders, alertText, requests,
                   request, closing, disconnects, rawLog>>

\* A close handler that retries whatever the counter says.
MayReconnect_Always == TRUE

\* reconnectAttempts < MAX_RECONNECT_ATTEMPTS
MayReconnect == reconnectAttempts < MAX_RECONNECT_ATTEMPTS

handleClose ==
    /\ isConnected' = FALSE
    /\ socket' = "none"
    /\ onDisconnect
    /\ IF MayReconnect
       THEN /\ reconnectAttempts' = reconnectAttempts + 1
            /\ reconnectTimers' = reconnectTimers + 1
       ELSE UNCHANGED <<reconnectAttempts, reconnectTimers>>
    /\ UNCHANGED <<reconnects, canvas, dateNow, renders, alertText, requests, request,
                   disconnects, rawLog>>

\* part_000 handleError: the error event of the socket.
handleSocketError ==
    /\ socket \in {"connecting", "open"}
    /\ onError
    /\ UNCHANGED <<socket, isConnected, reconnectAttempts, reconnectTimers,
                   reconnects, canvas, dateNow, renders, alertText, requests,
                   request, closing, disconnects, rawLog>>

\* A timer set by handleClose fires: connect().
ReconnectTimer ==
    /\ reconnectTimers > 0
    /\ reconnectTimers' = reconnectTimers - 1
    /\ connect
    /\ reconnects' = reconnects + 1
    /\ UNCHANGED client
    /\ UNCHANGED <<isConnected, reconnectAttempts, connectionStatus, canvas, dateNow,
                   renders, alertText, requests, request, closing, disconnects,
                   rawLog>>

\* disconnect(): the counter is set to its limit, the socket is closed and
\* dropped.  A timer that an earlier close has set stays pending, and the
\* close event of the socket closed here is still to come.
disconnect ==
    /\ disconnects < MaxDisconnects
    /\ disconnects' = disconnects + 1
    /\ reconnectAttempts' = MAX_RECONNECT_ATTEMPTS
    /\ closing' = IF socket # "none" THEN closing + 1 ELSE closing
    /\ socket' = "none"
    /\ isConnected' = FALSE
    /\ UNCHANGED client
    /\ UNCHANGED <<reconnectTimers, connectionStatus, reconnects, canvas, dateNow,
                   renders, alertText, requests, request, rawLog>>

(***************************************************************************)
(* part_000 handleMessage.  The text of a frame is the list of its JSON    *)
(* tokens; a token that is no punctuation and no literal is a string.      *)
(***************************************************************************)
Punctuation == {"{", "}", ":", ","}
IsString(token) == token \notin Punctuation \cup {"null"}

SyntaxError == [ok |-> FALSE, isNull |-> FALSE, type |-> "undefined"]
Value(isNull, type) == [ok |-> TRUE, isNull |-> isNull, type |-> type]

\* A parser that takes an object whose closing brace is missing.
JSONParse_Lenient(text) ==
    IF /\ Len(text) \in {4, 5}
       /\ text[1] = "{" /\ IsString(text[2]) /\ text[3] = ":" /\ IsString(text[4])
    THEN Value(FALSE, IF text[2] = "type" THEN text[4] ELSE "undefined")
    ELSE SyntaxError

\* JSON.parse(event.data), with the type member of the value: null, a
\* string, the empty object, or an object of one member with a string value.
JSONParse(text) ==
    IF text = <<"null">> THEN Value(TRUE, "undefined")
    ELSE IF Len(text) = 1 /\ IsString(text[1]) THEN Value(FALSE, "undefined")
    ELSE IF text = <<"{", "}">> THEN Value(FALSE, "undefined")
    ELSE IF /\ Len(text) = 5
            /\ text[1] = "{" /\ IsString(text[2]) /\ text[3] = ":"
            /\ IsString(text[4]) /\ text[5] = "}"
    THEN Value(FALSE, IF text[2] = "type" THEN text[4] ELSE "undefined")
    ELSE SyntaxError

\* handleMessage(event): the parse, the log line that reads message.type, and
\* the message handler are inside one try; the catch logs and returns.  Of
\* the messages that carry no field but the type, the switch of
\* handleServerMessage has the cases ERROR and PLACEMENT_INVALID, and no
\* default.
handleMessage(text) ==
    /\ socket = "open"
    /\ Len(rawLog) < MaxRawFrames
    /\ rawLog' = Append(rawLog, text)
    /\ LET message == JSONParse(text)
       IN  IF ~message.ok \/ message.isNull
           THEN UNCHANGED <<client, aside>>
           ELSE IF message.type = "ERROR" THEN handleError
           ELSE IF message.type = "PLACEMENT_INVALID" THEN handlePlacementInvalid
           ELSE UNCHANGED <<client, aside>>

(***************************************************************************)
(* main.js: the lobby form.  A text is the list of its characters.         *)
(***************************************************************************)
Whitespace == {" ", "\t"}

RECURSIVE TrimStart(_)
TrimStart(s) ==
    IF s # <<>> /\ Head(s) \in Whitespace THEN TrimStart(Tail(s)) ELSE s

RECURSIVE TrimEnd(_)
TrimEnd(s) ==
    IF s # <<>> /\ s[Len(s)] \in Whitespace THEN TrimEnd(SubSeq(s, 1, Len(s) - 1))
    ELSE s

\* A trim that returns the text as it is.
trim_Nothing(s) == s

\* String.prototype.trim
trim(s) == TrimEnd(TrimStart(s))

\* WebSocketClient.createSession(playerName, shapeType)
createSession(playerName) == send("CREATE_SESSION")

\* WebSocketClient.joinSession(sessionId, playerName)
joinSession(sessionId, playerName) == send("JOIN_SESSION")

\* The two buttons belong to the lobby.
LobbyRequest(kind, name, code) ==
    /\ "lobby" \in visibleScreens
    /\ requests < MaxRequests
    /\ requests' = requests + 1
    /\ request' = [kind |-> kind, name |-> name, code |-> code]
    /\ UNCHANGED <<currentSessionId, gameState, heap, myPlayerId, animatingMagnets,
                   animationFrameId, rafQueue, nextRafId, now, visibleScreens,
                   modalHidden, winnerText, notice, nmsg, lastMsg, pointer, seqs,
                   expected>>
    /\ UNCHANGED <<canvas, dateNow, renders, socket, isConnected, reconnectAttempts,
                   reconnectTimers, connectionStatus, reconnects, closing,
                   disconnects, rawLog>>

handleCreateGame(name) ==
    LET playerName == trim(name)
    IN  /\ LobbyRequest("create", name, <<>>)
        /\ IF playerName = <<>>
           THEN alertText' = "Please enter your name" /\ UNCHANGED <<outbox, wire>>
           ELSE createSession(playerName) /\ UNCHANGED alertText

handleJoinGame(name, code) ==
    LET playerName == trim(name)
        sessionCode == trim(code)
    IN  /\ LobbyRequest("join", name, code)
        /\ IF playerName = <<>>
           THEN alertText' = "Please enter your name" /\ UNCHANGED <<outbox, wire>>
           ELSE IF sessionCode = <<>>
           THEN alertText' = "Please enter a session code" /\ UNCHANGED <<outbox, wire>>
           ELSE joinSession(sessionCode, playerName) /\ UNCHANGED alertText

(***************************************************************************)
(* The specification.                                                      *)
(***************************************************************************)
NoRequest == [kind |-> "none", name |-> <<>>, code |-> <<>>]

\* The canvas, the transport and the lobby form after init(): nothing is
\* drawn, and connect() has made the first WebSocket.
AsideInit ==
    /\ canvas = [drawn |-> <<>>, disabled |-> FALSE]
    /\ dateNow = 0
    /\ renders = 0
    /\ socket = "connecting"
    /\ isConnected = FALSE
    /\ reconnectAttempts = 0
    /\ reconnectTimers = 0
    /\ connectionStatus = "connecting"
    /\ reconnects = 0
    /\ alertText = "none"
    /\ requests = 0
    /\ request = NoRequest
    /\ closing = 0
    /\ disconnects = 0
    /\ rawLog = <<>>

Init ==
    /\ AsideInit
    /\ currentSessionId = "none"
    /\ gameState = NullRef
    /\ heap = <<>>
    /\ myPlayerId = "none"
    /\ animatingMagnets = <<>>
    /\ animationFrameId = 0
    /\ rafQueue = <<>>
    /\ nextRafId = 1
    /\ now = 0
    /\ visibleScreens = {"lobby"}
    /\ modalHidden = TRUE
    /\ winnerText = ""
    /\ notice = "none"
    /\ outbox = <<>>
    /\ wire = <<>>
    /\ nmsg = 0
    /\ lastMsg = [type |-> "none", batch |-> 0, arg |-> "none"]
    /\ pointer = "none"
    /\ seqs = <<>>
    /\ expected = NoSnapshot

\* The server answers a create or a join, which the user issues from the lobby.
Answering == visibleScreens = {"lobby"}

\* The server sends the messages of a session to a client that is in one, and
\* those already under way may still arrive after the client has left.
InSession == currentSessionId # "none" \/ outbox # <<>>

\* A message of the server, as handleMessage parsed it.
SessionCreated ==
    /\ Answering
    /\ \E s \in WaitingSnapshots : handleSessionCreated(s)
    /\ UNCHANGED rawLog
SessionJoined ==
    /\ Answering
    /\ \E s \in RosterSnapshots : handleSessionJoined(s)
    /\ UNCHANGED rawLog
PlayerJoined ==
    /\ InSession
    /\ \E s \in RosterSnapshots : handlePlayerJoined(s)
    /\ UNCHANGED rawLog
PlayerLeft ==
    /\ InSession
    /\ \E s \in RosterSnapshots : handlePlayerLeft(s)
    /\ UNCHANGED rawLog
GameStarted ==
    /\ InSession
    /\ \E s \in PlayingSnapshots : handleGameStarted(s)
    /\ UNCHANGED rawLog
MagnetPlaced ==
    /\ InSession
    /\ \E s \in PlayingSnapshots, movements \in MovementBatches :
          handleMagnetPlaced(s, movements)
    /\ UNCHANGED rawLog
MagnetsClumped ==
    /\ InSession
    /\ \E s \in PostClumpSnapshots, clumped \in ClumpBatches :
          handleMagnetsClumped(s, clumped, "p2")
    /\ UNCHANGED rawLog
PlacementInvalid == InSession /\ handlePlacementInvalid /\ UNCHANGED rawLog
TurnChanged ==
    /\ InSession
    /\ \E turn \in PlayerIds : handleTurnChanged(turn)
    /\ UNCHANGED rawLog
GameOver ==
    /\ InSession
    /\ \E s \in FinishedSnapshots, winnerId \in PlayerIds : handleGameOver(s, winnerId)
    /\ UNCHANGED rawLog
ServerError == handleError /\ UNCHANGED rawLog
LeaveSession == handleLeaveSession
BackToLobby == handleBackToLobby
AnimationFrame == \E k \in 1..MaxStep : Frame(k * TickMs)
CanvasClick == \E inside \in BOOLEAN : handleCanvasClick(inside)
CanvasTouchStart == \E inside \in BOOLEAN : handleCanvasTouchStart(inside)

\* handleServerMessage: the dispatch on message.type.
handleServerMessage ==
    \/ SessionCreated
    \/ SessionJoined
    \/ PlayerJoined
    \/ PlayerLeft
    \/ GameStarted
    \/ MagnetPlaced
    \/ PlacementInvalid
    \/ MagnetsClumped
    \/ TurnChanged
    \/ GameOver
    \/ ServerError

Next ==
    \/ handleServerMessage
    \/ LeaveSession
    \/ BackToLobby
    \/ AnimationFrame

Spec == Init /\ [][Next]_vars

\* The client with the pointer events on the canvas as well.
InputNext ==
    \/ Next
    \/ CanvasClick
    \/ CanvasTouchStart

InputSpec == Init /\ [][InputNext]_vars

\* The steps of AnimationFrame, told by the clock: only a frame advances now,
\* and a frame can be delivered when one is requested and time is left.
FrameDelivered ==
    /\ rafQueue # <<>>
    /\ now + TickMs <= MaxTime
    /\ now' \in {now + k * TickMs : k \in 1..MaxStep}

\* The browser runs a requested animation frame: a frame that stays requested
\* is eventually delivered.
LiveSpec == Init /\ [][Next]_vars /\ WF_now(FrameDelivered)

(***************************************************************************)
(* The renderer on its own: a client that has joined a running game, with  *)
(* or without a movement sequence under way after that, whose render() is  *)
(* called while the wall clock advances.  The tokens are at whole pixels.  *)
(***************************************************************************)
Scene(magnets, turn) ==
    Snapshot("playing", <<Player("p1", 1), Player("p2", 1)>>, magnets, turn, "none")

PairAt(x, y) == <<Magnet("m1", "p1", At(0, 0)), Magnet("m2", "p2", At(x, y))>>

\* No token, one token, pairs at the distances 0, 29, 30, 31, 59, 60, 149, 150
\* and 151, and three tokens.
SceneMagnets ==
    { <<>>, <<Magnet("m1", "p1", At(0, 0))>>,
      PairAt(0, 0), PairAt(0, 29), PairAt(18, 24), PairAt(0, 31), PairAt(0, 59),
      PairAt(0, 60), PairAt(0, 149), PairAt(90, 120), PairAt(0, 151),
      <<Magnet("m1", "p1", At(0, 0)), Magnet("m2", "p2", At(18, 24)),
        Magnet("m3", "p1", At(0, 100))>> }

RenderScenes == {Scene(magnets, turn) : magnets \in SceneMagnets, turn \in PlayerIds}

SceneMovements == <<Movement("m2", At(0, 40), At(18, 24))>>

\* The client after handleSessionJoined(s).
Joined(s) ==
    /\ currentSessionId = s.sessionId
    /\ gameState = RealRef(1)
    /\ heap = [r \in {RealRef(1)} |-> s]
    /\ myPlayerId = LastPlayer(s.players).id
    /\ animatingMagnets = <<>>
    /\ animationFrameId = 0
    /\ rafQueue = <<>>
    /\ nextRafId = 1
    /\ now = 0
    /\ visibleScreens = {"game"}
    /\ modalHidden = TRUE
    /\ winnerText = ""
    /\ notice = "joined"
    /\ outbox = <<>>
    /\ wire = <<>>
    /\ nmsg = 1
    /\ lastMsg = [type |-> "SESSION_JOINED", batch |-> 0, arg |-> "none"]
    /\ pointer = "none"
    /\ seqs = <<>>
    /\ expected = s

\* The client after handleSessionJoined(s) and handleMagnetPlaced(s, movements).
JoinedAndPlaced(s, movements) ==
    /\ currentSessionId = s.sessionId
    /\ gameState = CopyRef(2)
    /\ heap = [r \in {RealRef(2), CopyRef(2)} |->
                 IF r = RealRef(2) THEN s ELSE StateBeforeMovement(s, movements)]
    /\ myPlayerId = LastPlayer(s.players).id
    /\ animatingMagnets = AnimsOf(movements)
    /\ animationFrameId = 1
    /\ rafQueue = <<[id |-> 1, kind |-> "move", startTime |-> 0,
                     snap |-> RealRef(2), seq |-> 1]>>
    /\ nextRafId = 2
    /\ now = 0
    /\ visibleScreens = {"game"}
    /\ modalHidden = TRUE
    /\ winnerText = ""
    /\ notice = "attracting"
    /\ outbox = <<>>
    /\ wire = <<>>
    /\ nmsg = 2
    /\ lastMsg = [type |-> "MAGNET_PLACED", batch |-> Len(movements), arg |-> "none"]
    /\ pointer = "none"
    /\ seqs = <<[kind |-> "move", msg |-> 2, stale |-> FALSE, ticks |-> 0, cb |-> 0,
                 state |-> "running"]>>
    /\ expected = s

RenderInit ==
    /\ AsideInit
    /\ \/ \E s \in RenderScenes : Joined(s)
       \/ \E s \in RenderScenes :
             /\ Len(s.magnets) = 2
             /\ s.magnets[2].position = SceneMovements[1].toPosition
             /\ JoinedAndPlaced(s, SceneMovements)

\* A call of render(), from updateState or from a tick of a loop.
Render ==
    /\ renders < MaxRenders
    /\ renders' = renders + 1
    /\ render
    /\ UNCHANGED <<currentSessionId, now, visibleScreens, modalHidden, winnerText,
                   notice, outbox, wire, nmsg, lastMsg, pointer, seqs, expected>>
    /\ UNCHANGED <<dateNow, socket, isConnected, reconnectAttempts, reconnectTimers,
                   connectionStatus, reconnects, alertText, requests, request,
                   closing, disconnects, rawLog>>

\* The wall clock advances by a quarter period of the pulse.
ClockTick ==
    /\ dateNow < MaxClockSteps * PulseQuarterMs
    /\ dateNow' = dateNow + PulseQuarterMs
    /\ UNCHANGED client
    /\ UNCHANGED <<canvas, renders, socket, isConnected, reconnectAttempts,
                   reconnectTimers, connectionStatus, reconnects, alertText,
                   requests, request, closing, disconnects, rawLog>>

RenderNext ==
    \/ Render
    \/ ClockTick

RenderSpec == RenderInit /\ [][RenderNext]_vars

(***************************************************************************)
(* The client with its transport: the events of the socket, the reconnect  *)
(* timers, and the messages the open socket delivers.                      *)
(***************************************************************************)
\* socket.onmessage: handleMessage hands the parsed message to the coordinator.
SocketMessage ==
    /\ socket = "open"
    /\ nmsg < MaxNetMsgs
    /\ handleServerMessage

SocketOpen == handleOpen
\* socket.onclose of the socket the client holds.
SocketClose ==
    /\ socket \in {"connecting", "open"}
    /\ handleClose
    /\ UNCHANGED closing
SocketError == handleSocketError

TransportNext ==
    \/ SocketOpen
    \/ SocketClose
    \/ SocketError
    \/ ReconnectTimer
    \/ SocketMessage
    \/ LeaveSession
    \/ BackToLobby
    \/ AnimationFrame

TransportSpec == Init /\ [][TransportNext]_vars

(***************************************************************************)
(* The transport with a caller of disconnect().                            *)
(***************************************************************************)
Disconnect == disconnect

\* socket.onclose of a socket that disconnect() closed: the handler stays
\* assigned to it.
ClosedSocketClose ==
    /\ closing > 0
    /\ closing' = closing - 1
    /\ handleClose

DisconnectNext ==
    \/ TransportNext
    \/ Disconnect
    \/ ClosedSocketClose

DisconnectSpec == Init /\ [][DisconnectNext]_vars

(***************************************************************************)
(* The transport with the frames as the socket delivers them.              *)
(***************************************************************************)
ObjectText(key, type) == <<"{", key, ":", type, "}">>
FrameTexts ==
    {<<>>, <<"{", "type", ":", "ERROR">>, <<"null">>, <<"{", "}">>,
     ObjectText("kind", "ERROR"), ObjectText("type", "PING"),
     ObjectText("type", "ERROR"), ObjectText("type", "PLACEMENT_INVALID")}

SocketFrame == \E text \in FrameTexts : handleMessage(text)

FrameNext ==
    \/ SocketOpen
    \/ SocketClose
    \/ ReconnectTimer
    \/ SocketFrame
    \/ SocketMessage

FrameSpec == Init /\ [][FrameNext]_vars

(***************************************************************************)
(* The lobby: the create and join buttons, the server's answers, and the   *)
(* leave button that brings the user back.                                 *)
(***************************************************************************)
PlayerNames == {<<>>, <<" ">>, <<"\t", " ">>, <<"A">>, <<" ", "A", " ">>}
SessionCodes == {<<>>, <<" ">>, <<"a", "b">>}

CreateGame == \E name \in PlayerNames : handleCreateGame(name)
JoinGame == \E name \in PlayerNames, code \in SessionCodes : handleJoinGame(name, code)

LobbyNext ==
    \/ CreateGame
    \/ JoinGame
    \/ SessionCreated
    \/ SessionJoined
    \/ LeaveSession

LobbySpec == Init /\ [][LobbyNext]_vars

(***************************************************************************)
(* Vocabulary of the properties.                                           *)
(***************************************************************************)
\* The Scene Model by value.
SceneModel == IF gameState = NullRef THEN NoSnapshot ELSE heap[gameState]

\* Some animation loop still has a frame requested: a sequence is Running.
AnimationInFlight == rafQueue # <<>>

\* This step dispatches a server message.
DispatchStep == nmsg' = nmsg + 1

\* Sequence i still has a frame requested.
Pending(i) == \E k \in DOMAIN rafQueue : rafQueue[k].seq = i

\* Sequence i ran a tick in this step.
TickedInStep(i) == seqs'[i].ticks # seqs[i].ticks

\* This step is a leave: it shows the lobby or hands a leave command to the
\* transport.
LeaveStep ==
    \/ (Len(outbox') = Len(outbox) + 1 /\ outbox'[Len(outbox')] = "LEAVE_SESSION")
    \/ (visibleScreens' = {"lobby"} /\ visibleScreens # {"lobby"})

(***************************************************************************)
(* C1.  A token-placed message with movements, or a tokens-clumped         *)
(* message, that arrives while an animation sequence is Running is queued: *)
(* it starts no second sequence and nothing of it reaches the Scene Model  *)
(* in the step that receives it.                                           *)
(***************************************************************************)
C1_QueuedWhileRunning ==
    [][ ( /\ AnimationInFlight
          /\ DispatchStep
          /\ \/ lastMsg'.type = "MAGNETS_CLUMPED"
             \/ (lastMsg'.type = "MAGNET_PLACED" /\ lastMsg'.batch > 0) )
        => ( /\ rafQueue' = rafQueue
             /\ seqs' = seqs
             /\ gameState' = gameState
             /\ SceneModel' = SceneModel ) ]_vars

(***************************************************************************)
(* C2.  canPlaceMagnet() is false in every state in which an animation     *)
(* sequence, of either kind, is in flight.                                 *)
(***************************************************************************)
C2_GateClosedWhileAnimating == AnimationInFlight => ~canPlaceMagnet

(***************************************************************************)
(* C3.  In an active session, whenever no animation is in flight, the      *)
(* Scene Model equals the snapshot of the most recently received message   *)
(* that carries one, with the later turn-changed patches applied.          *)
(***************************************************************************)
C3_LatestSnapshotWhenIdle ==
    (~AnimationInFlight /\ currentSessionId # "none" /\ expected # NoSnapshot)
        => SceneModel = expected

(***************************************************************************)
(* C4.  While the sequence a message started is Running, no later message  *)
(* has an effect on the Scene Model, and the snapshots are committed in    *)
(* the order in which their messages arrived.                              *)
(***************************************************************************)
C4_CommitsInArrivalOrder ==
    [][ /\ (AnimationInFlight /\ DispatchStep)
            => (gameState' = gameState /\ SceneModel' = SceneModel)
        /\ (gameState # NullRef /\ gameState' # NullRef)
            => MsgOf(gameState') >= MsgOf(gameState) ]_vars

(***************************************************************************)
(* C5.  A token-placed message with movements commits a fresh copy of its  *)
(* snapshot in which each token a movement names is at that movement's     *)
(* origin and every other field is the snapshot's, and starts exactly one  *)
(* movement sequence; the real snapshot of such a message becomes the      *)
(* Scene Model only in the step in which that sequence's completion        *)
(* callback fires.                                                         *)
(***************************************************************************)
MovementPlacedStep ==
    DispatchStep /\ lastMsg'.type = "MAGNET_PLACED" /\ lastMsg'.batch > 0

SyntheticCommitted ==
    LET real == expected'
        shown == heap'[gameState']
    IN  /\ gameState' = CopyRef(nmsg')
        /\ heap'[RealRef(nmsg')] = real
        /\ [shown EXCEPT !.magnets = real.magnets] = real
        /\ Len(shown.magnets) = Len(real.magnets)
        /\ \A i \in DOMAIN shown.magnets :
              /\ [shown.magnets[i] EXCEPT !.position = real.magnets[i].position]
                    = real.magnets[i]
              /\ \A k \in DOMAIN animatingMagnets' :
                    animatingMagnets'[k].magnetId = shown.magnets[i].id
                        => shown.magnets[i].position = animatingMagnets'[k].fromPos
              /\ (\A k \in DOMAIN animatingMagnets' :
                    animatingMagnets'[k].magnetId # shown.magnets[i].id)
                        => shown.magnets[i].position = real.magnets[i].position

OneMovementSequenceStarted ==
    /\ Len(seqs') = Len(seqs) + 1
    /\ seqs'[Len(seqs')].kind = "move"
    /\ seqs'[Len(seqs')].cb = 0
    /\ Len(rafQueue') = Len(rafQueue) + 1
    /\ SubSeq(rafQueue', 1, Len(rafQueue)) = rafQueue
    /\ rafQueue'[Len(rafQueue')].kind = "move"
    /\ rafQueue'[Len(rafQueue')].snap = RealRef(nmsg')
    /\ rafQueue'[Len(rafQueue')].seq = Len(seqs')

RealCommittedOnlyByCallback ==
    \A i \in DOMAIN seqs :
        (seqs[i].kind = "move" /\ gameState' = RealRef(seqs[i].msg)
            /\ gameState # gameState')
        => (seqs[i].cb = 0 /\ seqs'[i].cb = 1 /\ ~DispatchStep)

C5_SyntheticThenAnimate ==
    [][ /\ MovementPlacedStep => (SyntheticCommitted /\ OneMovementSequenceStarted)
        /\ RealCommittedOnlyByCallback ]_vars

C5_Witness ==
    \E i \in DOMAIN seqs :
        /\ seqs[i].kind = "move"
        /\ seqs[i].cb = 1
        /\ gameState = RealRef(seqs[i].msg)

(***************************************************************************)
(* C6.  The completion callback of a sequence that no reset has hit is     *)
(* invoked exactly once, when the sequence stops requesting frames: not    *)
(* while a frame of it is requested, once when none is; no callback is     *)
(* ever invoked twice.  A submission with an empty batch invokes it at     *)
(* once and leaves the scheduler as it was.                                *)
(***************************************************************************)
CallbackOnceOnCompletion ==
    \A i \in DOMAIN seqs :
        /\ seqs[i].cb <= 1
        /\ Cardinality({k \in DOMAIN rafQueue : rafQueue[k].seq = i}) <= 1
        /\ ~seqs[i].stale => (seqs[i].cb = IF Pending(i) THEN 0 ELSE 1)

EmptyBatchStep ==
    /\ DispatchStep
    /\ lastMsg'.type = "MAGNETS_CLUMPED"
    /\ lastMsg'.batch = 0

C6_CallbackExactlyOnce ==
    /\ []CallbackOnceOnCompletion
    /\ [][ EmptyBatchStep =>
             /\ Len(seqs') = Len(seqs) + 1
             /\ seqs'[Len(seqs')].cb = 1
             /\ gameState' = RealRef(nmsg')
             /\ UNCHANGED <<rafQueue, animatingMagnets, animationFrameId>> ]_vars

C6_Witness ==
    /\ Len(seqs) >= 3
    /\ seqs[1].kind = "move" /\ seqs[1].cb = 1 /\ ~seqs[1].stale /\ seqs[1].ticks >= 2
    /\ seqs[2].kind = "clump" /\ seqs[2].cb = 0 /\ Pending(2)
    /\ seqs[3].kind = "clump" /\ seqs[3].cb = 1 /\ seqs[3].ticks = 0

(***************************************************************************)
(* C7.  After a reset, no sequence submitted before it runs a tick or has  *)
(* its completion callback invoked.                                        *)
(***************************************************************************)
C7_ResetStopsEveryLoop ==
    [][ \A i \in DOMAIN seqs :
            seqs[i].stale => (seqs'[i].ticks = seqs[i].ticks /\ seqs'[i].cb = seqs[i].cb)
      ]_vars

(***************************************************************************)
(* C8.  After a reset, a frame in which only sequences submitted before    *)
(* the reset run leaves the Scene Model as it was: neither replaced nor    *)
(* modified.                                                               *)
(***************************************************************************)
C8_NoStaleWrite ==
    [][ ( /\ \E i \in DOMAIN seqs : seqs[i].stale /\ TickedInStep(i)
          /\ \A i \in DOMAIN seqs : TickedInStep(i) => seqs[i].stale )
        => (gameState' = gameState /\ SceneModel' = SceneModel) ]_vars

(***************************************************************************)
(* C9.  A leave, in one step and with no message dispatched in it, clears  *)
(* the live-session guard, the Scene Model, the local identity and the     *)
(* in-flight movement list, cancels the frame recorded in animationFrameId,*)
(* hides the game-over modal, shows the lobby and hands a leave-session    *)
(* command to the transport.                                               *)
(***************************************************************************)
C9_LeaveIsSynchronous ==
    [][ LeaveStep =>
          /\ currentSessionId' = "none"
          /\ gameState' = NullRef
          /\ myPlayerId' = "none"
          /\ animatingMagnets' = <<>>
          /\ animationFrameId' = 0
          /\ \A k \in DOMAIN rafQueue' : rafQueue'[k].id # animationFrameId
          /\ \A k \in DOMAIN rafQueue :
                rafQueue[k].id # animationFrameId
                    => \E j \in DOMAIN rafQueue' : rafQueue'[j] = rafQueue[k]
          /\ modalHidden'
          /\ visibleScreens' = {"lobby"}
          /\ outbox' = Append(outbox, "LEAVE_SESSION")
          /\ ~DispatchStep ]_vars

C9_Witness ==
    /\ outbox # <<>>
    /\ currentSessionId = "none"
    /\ \E i \in DOMAIN seqs : seqs[i].state = "cancelled"
    /\ lastMsg.type = "GAME_OVER"
    /\ winnerText # ""

(***************************************************************************)
(* C10.  While the live-session guard is cleared the game-over modal is    *)
(* hidden, and a game-over received then changes nothing of the client;    *)
(* a game-over received in an active session shows the modal with the      *)
(* winner.                                                                 *)
(***************************************************************************)
GameOverStep == DispatchStep /\ lastMsg'.type = "GAME_OVER"

C10_GameOverGuarded ==
    /\ [](currentSessionId = "none" => modalHidden)
    /\ [][ GameOverStep =>
             IF currentSessionId = "none"
             THEN /\ modalHidden'
                  /\ UNCHANGED <<currentSessionId, gameState, heap, myPlayerId,
                                 animatingMagnets, animationFrameId, rafQueue,
                                 nextRafId, now, visibleScreens, modalHidden,
                                 winnerText, notice, outbox, seqs>>
             ELSE /\ ~modalHidden'
                  /\ winnerText' = IF lastMsg'.arg = myPlayerId THEN "You Win!"
                                   ELSE IF lastMsg'.arg = "p1" THEN "p1 Wins!"
                                   ELSE "p2 Wins!"
                  /\ UNCHANGED <<currentSessionId, gameState, heap, myPlayerId>> ]_vars

C10_Witness ==
    /\ lastMsg.type = "GAME_OVER"
    /\ currentSessionId = "none"
    /\ outbox # <<>>
    /\ modalHidden
    /\ rafQueue # <<>>

(***************************************************************************)
(* C11.  canPlaceMagnet() is true exactly when a GameState exists, its     *)
(* status is playing, the turn is the local player's, no animation         *)
(* sequence is in flight, and the local player is in the roster with a     *)
(* remaining-token count above zero.                                       *)
(***************************************************************************)
C11_GateIffAllConditions ==
    canPlaceMagnet <=>
        ( /\ gameState # NullRef
          /\ SceneModel.status = "playing"
          /\ SceneModel.currentTurnPlayerId = myPlayerId
          /\ ~AnimationInFlight
          /\ \E i \in DOMAIN SceneModel.players :
                /\ SceneModel.players[i].id = myPlayerId
                /\ SceneModel.players[i].remainingMagnets > 0 )

(***************************************************************************)
(* C12.  A place-token command is handed to the transport only by a        *)
(* pointer event that finds canPlaceMagnet() true and the point inside the *)
(* shape; a pointer event that finds the gate closed changes nothing, and  *)
(* one whose point is outside the shape shows a notice and sends nothing.  *)
(***************************************************************************)
PointerStep == pointer' # "none"

PlaceCommandEmitted ==
    Len(outbox') > Len(outbox) /\ outbox'[Len(outbox')] = "PLACE_MAGNET"

C12_PlacementGated ==
    [][ /\ PlaceCommandEmitted
            => ( /\ PointerStep
                 /\ canPlaceMagnet
                 /\ pointer' = "inside"
                 /\ outbox' = Append(outbox, "PLACE_MAGNET") )
        /\ (PointerStep /\ ~canPlaceMagnet)
            => UNCHANGED <<currentSessionId, gameState, heap, myPlayerId,
                           animatingMagnets, animationFrameId, rafQueue, nextRafId,
                           now, visibleScreens, modalHidden, winnerText, notice,
                           outbox, seqs>>
        /\ (PointerStep /\ canPlaceMagnet /\ pointer' = "outside")
            => (notice' = "outside-shape" /\ outbox' = outbox) ]_vars

C12_Witness ==
    /\ pointer = "inside"
    /\ outbox # <<>>
    /\ outbox[Len(outbox)] = "PLACE_MAGNET"

(***************************************************************************)
(* C13.  A placement-rejected message and an error message leave the Scene *)
(* Model as it was, field by field, and leave the local identity, the      *)
(* live-session guard and the animation state unchanged; they set the      *)
(* notice and nothing else.                                                *)
(***************************************************************************)
RejectionStep ==
    DispatchStep /\ lastMsg'.type \in {"PLACEMENT_INVALID", "ERROR"}

C13_RejectionChangesNothing ==
    [][ RejectionStep =>
          /\ SceneModel' = SceneModel
          /\ notice' = IF lastMsg'.type = "ERROR" THEN "error" ELSE "reason"
          /\ UNCHANGED <<currentSessionId, gameState, heap, myPlayerId,
                         animatingMagnets, animationFrameId, rafQueue, nextRafId,
                         now, visibleScreens, modalHidden, winnerText, outbox,
                         seqs>> ]_vars

C13_Witness ==
    /\ lastMsg.type = "PLACEMENT_INVALID"
    /\ notice = "reason"
    /\ gameState # NullRef
    /\ animatingMagnets # <<>>
    /\ rafQueue # <<>>

(***************************************************************************)
(* C14.  A turn-changed message sets the current-turn field of the         *)
(* snapshot the Scene Model refers to and changes nothing else of it: the  *)
(* Scene Model stays the same object, no other snapshot is touched, and    *)
(* when there is no GameState the Scene Model stays null.                  *)
(***************************************************************************)
TurnChangedStep == DispatchStep /\ lastMsg'.type = "TURN_CHANGED"

C14_TurnPatchOnly ==
    [][ TurnChangedStep =>
          /\ gameState' = gameState
          /\ DOMAIN heap' = DOMAIN heap
          /\ \A r \in DOMAIN heap : r # gameState => heap'[r] = heap[r]
          /\ gameState # NullRef =>
                /\ SceneModel'.currentTurnPlayerId = lastMsg'.arg
                /\ [SceneModel' EXCEPT !.currentTurnPlayerId =
                                          SceneModel.currentTurnPlayerId] = SceneModel
          /\ gameState = NullRef => SceneModel' = NoSnapshot
          /\ UNCHANGED <<currentSessionId, myPlayerId, animatingMagnets,
                         animationFrameId, rafQueue, seqs>> ]_vars

C14_Witness ==
    /\ lastMsg.type = "TURN_CHANGED"
    /\ lastMsg.arg = "p2"
    /\ gameState # NullRef
    /\ SceneModel # SnapPlayA
    /\ [SceneModel EXCEPT !.currentTurnPlayerId = "p1"] = SnapPlayA

(***************************************************************************)
(* C15.  A game-over received in an active session replaces the Scene      *)
(* Model by the snapshot it carries, as every message with a snapshot      *)
(* does: after it the Scene Model has the status finished.                 *)
(***************************************************************************)
C15_GameOverSnapshotCommitted ==
    [][ (GameOverStep /\ currentSessionId # "none")
            => ( /\ gameState' = RealRef(nmsg')
                 /\ SceneModel'.status = "finished" ) ]_vars

(***************************************************************************)
(* C16.  A session-created message makes the first player of its roster    *)
(* the local player, a session-joined message the last player of its       *)
(* roster; both commit the carried snapshot and set the live-session       *)
(* guard.                                                                  *)
(***************************************************************************)
SessionStep ==
    DispatchStep /\ lastMsg'.type \in {"SESSION_CREATED", "SESSION_JOINED"}

C16_IdentityFromRoster ==
    [][ SessionStep =>
          LET s == expected'
          IN  /\ myPlayerId' = IF lastMsg'.type = "SESSION_CREATED"
                               THEN s.players[1].id
                               ELSE s.players[Len(s.players)].id
              /\ gameState' = RealRef(nmsg')
              /\ SceneModel' = s
              /\ currentSessionId' = s.sessionId
              /\ currentSessionId' # "none" ]_vars

C16_Witness ==
    /\ lastMsg.type = "SESSION_JOINED"
    /\ Len(SceneModel.players) = 2
    /\ myPlayerId = "p2"
    /\ SceneModel.players[1].id = "p1"
    /\ currentSessionId = "S1"

ClumpedIds == UNION {{b[k].id : k \in DOMAIN b} : b \in ClumpBatches}

ClumpStep ==
    DispatchStep /\ lastMsg'.type = "MAGNETS_CLUMPED" /\ lastMsg'.batch > 0

OnlyCollectionTicks ==
    /\ \E i \in DOMAIN seqs : TickedInStep(i)
    /\ \A i \in DOMAIN seqs :
          TickedInStep(i) => (seqs[i].kind = "clump" /\ seqs'[i].cb = seqs[i].cb)

CollectionCommitsOnlyOnCompletion ==
    \A i \in DOMAIN seqs :
        (seqs[i].kind = "clump" /\ gameState' = RealRef(seqs[i].msg)
            /\ gameState # gameState')
        => (seqs[i].cb = 0 /\ seqs'[i].cb = 1 /\ seqs'[i].state = "done")

CollectionCommitsOnCompletion ==
    \A i \in DOMAIN seqs :
        ( /\ seqs[i].kind = "clump"
          /\ seqs'[i].state = "done" /\ seqs[i].state # "done"
          /\ \A j \in DOMAIN seqs : TickedInStep(j) => j = i )
        => ( /\ seqs'[i].cb = 1
             /\ gameState' = RealRef(seqs[i].msg)
             /\ SceneModel' \in PostClumpSnapshots
             /\ \A k \in DOMAIN SceneModel'.magnets :
                   SceneModel'.magnets[k].id \notin ClumpedIds )

C18_CollectionIsEphemeral ==
    [][ /\ ClumpStep => (gameState' = gameState /\ SceneModel' = SceneModel)
        /\ OnlyCollectionTicks => (gameState' = gameState /\ SceneModel' = SceneModel)
        /\ CollectionCommitsOnlyOnCompletion
        /\ CollectionCommitsOnCompletion ]_vars

C18_Witness ==
    \E i \in DOMAIN seqs :
        /\ seqs[i].kind = "clump"
        /\ seqs[i].state = "done"
        /\ seqs[i].ticks >= 2
        /\ gameState = RealRef(seqs[i].msg)
        /\ SceneModel = SnapAfterClump

(***************************************************************************)
(* C19.  A token-placed message with no movements commits its snapshot in  *)
(* the step that receives it, starts no sequence and leaves the in-flight  *)
(* list, the requested frames and the frame handle as they were.           *)
(***************************************************************************)
PlacedWithoutMovementsStep ==
    DispatchStep /\ lastMsg'.type = "MAGNET_PLACED" /\ lastMsg'.batch = 0

C19_NoMovementsCommitsDirectly ==
    [][ PlacedWithoutMovementsStep =>
          /\ gameState' = RealRef(nmsg')
          /\ SceneModel' = expected'
          /\ UNCHANGED <<animatingMagnets, animationFrameId, rafQueue, nextRafId,
                         seqs>> ]_vars

C19_Witness ==
    /\ lastMsg.type = "MAGNET_PLACED"
    /\ lastMsg.batch = 0
    /\ gameState = RealRef(nmsg)
    /\ animatingMagnets # <<>>
    /\ rafQueue # <<>>

(***************************************************************************)
(* C20.  With animation frames delivered fairly, every submitted sequence  *)
(* that no reset hits, and whose duration ends within the horizon of the   *)
(* model, eventually completes: it stops requesting frames and its         *)
(* completion callback has been invoked.                                   *)
(***************************************************************************)
EndsWithinHorizon(i) ==
    \E k \in DOMAIN rafQueue :
        /\ rafQueue[k].seq = i
        /\ rafQueue[k].startTime + ANIMATION_DURATION + TickMs <= MaxTime

Completed(i) == seqs[i].state = "done" /\ seqs[i].cb = 1 /\ ~Pending(i)

\* A sequence no reset has hit is running, with a frame requested, or has
\* completed (or had nothing to animate).
RunningOrCompleted ==
    \A i \in DOMAIN seqs :
        ~seqs[i].stale =>
            \/ seqs[i].state = "running" /\ seqs[i].cb = 0 /\ Pending(i)
            \/ Completed(i)
            \/ seqs[i].state = "skipped" /\ seqs[i].cb = 1 /\ ~Pending(i)

SomeSequenceUnfinished ==
    \E i \in DOMAIN seqs :
        ~seqs[i].stale /\ seqs[i].state = "running" /\ EndsWithinHorizon(i)

C20_EverySequenceCompletes ==
    /\ []RunningOrCompleted
    /\ []<>(~SomeSequenceUnfinished)

C20_Witness ==
    /\ Len(seqs) >= 2
    /\ \A i \in DOMAIN seqs :
          ~seqs[i].stale /\ seqs[i].ticks >= 2 /\ Completed(i)
    /\ seqs[1].kind # seqs[2].kind
    /\ rafQueue = <<>>
    /\ animatingMagnets = <<>>
    /\ animationFrameId = 0

(***************************************************************************)
(* C21.  During a movement animation the position a tick writes for an     *)
(* animated token lies on the straight segment from the movement's origin  *)
(* to its destination: it is the origin at progress 0, the destination at  *)
(* progress 1, and from tick to tick the progress never decreases.         *)
(***************************************************************************)
\* The elapsed times a tick can see.
TickTimes == {k * TickMs : k \in 0..MaxFrames}

\* The tokens of the Scene Model as a tick with the eased progress ease
\* leaves them.
TickedAt(ease) == WritePositions(SceneModel.magnets, animatingMagnets, 1, ease)

\* The token of the Scene Model that movement k of the list animates, 0 if none.
AnimatedToken(magnets, anims, k) ==
    IF \E later \in (k + 1)..Len(anims) : anims[later].magnetId = anims[k].magnetId
    THEN 0
    ELSE FindIndex(magnets, anims[k].magnetId)

\* Every loop that ticks in this step is a movement loop.
MoveTicksOnly ==
    /\ now' # now
    /\ \A k \in DOMAIN rafQueue : rafQueue[k].kind = "move"

EaseIsProgress ==
    /\ EaseOut(0) = 0
    /\ \A e \in TickTimes :
          /\ EaseOut(e) \in 0..Cube
          /\ e >= ANIMATION_DURATION => EaseOut(e) = Cube
          /\ \A later \in TickTimes : e <= later => EaseOut(e) <= EaseOut(later)

EndsOfSegment ==
    (animatingMagnets # <<>> /\ gameState # NullRef)
        => \A k \in DOMAIN animatingMagnets :
              LET i == AnimatedToken(SceneModel.magnets, animatingMagnets, k)
              IN  i # 0 =>
                    /\ TickedAt(EaseOut(0))[i].position = animatingMagnets[k].fromPos
                    /\ \A e \in TickTimes :
                          e >= ANIMATION_DURATION
                              => TickedAt(EaseOut(e))[i].position
                                    = animatingMagnets[k].toPos

OnSegmentAfterTick ==
    (MoveTicksOnly /\ animatingMagnets' # <<>> /\ gameState' # NullRef)
        => \A k \in DOMAIN animatingMagnets' :
              LET anim == animatingMagnets'[k]
                  i == AnimatedToken(SceneModel'.magnets, animatingMagnets', k)
              IN  /\ anim.progress \in 0..Cube
                  /\ Len(animatingMagnets) = Len(animatingMagnets')
                        => anim.progress >= animatingMagnets[k].progress
                  /\ i # 0 =>
                        SceneModel'.magnets[i].position =
                            [x |-> Interpolate(anim.fromPos.x, anim.toPos.x, anim.progress),
                             y |-> Interpolate(anim.fromPos.y, anim.toPos.y, anim.progress)]

C21_OnSegmentAndMonotone ==
    /\ [](EaseIsProgress /\ EndsOfSegment)
    /\ [][OnSegmentAfterTick]_vars

\* A token is strictly between the origin and the destination of its movement.
C21_Witness ==
    /\ gameState # NullRef
    /\ \E k \in DOMAIN animatingMagnets :
          LET anim == animatingMagnets[k]
              i == AnimatedToken(SceneModel.magnets, animatingMagnets, k)
          IN  /\ i # 0
              /\ anim.progress > 0 /\ anim.progress < Cube
              /\ anim.fromPos # anim.toPos
              /\ SceneModel.magnets[i].position # anim.fromPos
              /\ SceneModel.magnets[i].position # anim.toPos
              /\ SceneModel.magnets[i].position =
                    [x |-> Interpolate(anim.fromPos.x, anim.toPos.x, anim.progress),
                     y |-> Interpolate(anim.fromPos.y, anim.toPos.y, anim.progress)]

(***************************************************************************)
(* C22.  render() never mutates the Scene Model, myPlayerId or the         *)
(* animation state: the snapshot, the in-flight list, the requested frames *)
(* and the local identity are the same before and after a render call.     *)
(***************************************************************************)
\* This step is a call of render().
RenderStep == renders' = renders + 1

C22_RenderMutatesNothing ==
    [][ RenderStep
        => ( /\ SceneModel' = SceneModel
             /\ UNCHANGED <<gameState, heap, myPlayerId, animatingMagnets,
                            animationFrameId, rafQueue, nextRafId, seqs,
                            currentSessionId>> ) ]_vars

\* render() has drawn the scene of a movement sequence under way.
C22_Witness ==
    /\ renders > 0
    /\ Len(canvas.drawn) > 3
    /\ animatingMagnets # <<>>
    /\ rafQueue # <<>>

(***************************************************************************)
(* C23.  Rendering a snapshot twice produces the same draw output: the     *)
(* draw commands are a function of the Scene Model and the local identity  *)
(* alone, also when two tokens are at or below the clump threshold.  (No   *)
(* step of RenderSpec changes the Scene Model or the identity, so every    *)
(* render call after the first one is a second rendering of the same       *)
(* snapshot.)                                                              *)
(***************************************************************************)
C23_RenderIsFunctionOfScene ==
    [][ (RenderStep /\ renders > 0) => canvas' = canvas ]_vars

(***************************************************************************)
(* C24.  For every pair of tokens at distance d exactly one of three       *)
(* outcomes is drawn: the solid highlight when d <= 30, the dashed         *)
(* attraction line when 30 < d < 150, nothing when d >= 150; at d = 30 the *)
(* highlight is drawn and the attraction line is not.                      *)
(***************************************************************************)
\* How many commands op the canvas holds for the pair of tokens m1, m2.
PairDrawn(op, m1, m2) ==
    Cardinality({k \in DOMAIN canvas.drawn :
                    /\ canvas.drawn[k].op = op
                    /\ canvas.drawn[k].from = m1.position
                    /\ canvas.drawn[k].to = m2.position})

C24_OneOutcomePerPair ==
    (renders > 0 /\ gameState # NullRef)
        => \A i, j \in DOMAIN SceneModel.magnets :
              i < j =>
                LET m1 == SceneModel.magnets[i]
                    m2 == SceneModel.magnets[j]
                    dx == m2.position.x - m1.position.x
                    dy == m2.position.y - m1.position.y
                    d2 == dx * dx + dy * dy
                    highlight == PairDrawn("clump", m1, m2)
                    line == PairDrawn("attraction", m1, m2)
                IN  /\ d2 <= 30 * 30 => (highlight = 1 /\ line = 0)
                    /\ (30 * 30 < d2 /\ d2 < 150 * 150) => (highlight = 0 /\ line = 1)
                    /\ d2 >= 150 * 150 => (highlight = 0 /\ line = 0)

\* A pair exactly 30 pixels apart has been drawn with the highlight alone.
C24_Witness ==
    /\ renders > 0
    /\ gameState # NullRef
    /\ Len(SceneModel.magnets) = 2
    /\ DistanceSq(SceneModel.magnets[1], SceneModel.magnets[2]) = 30 * 30
    /\ PairDrawn("clump", SceneModel.magnets[1], SceneModel.magnets[2]) = 1
    /\ PairDrawn("attraction", SceneModel.magnets[1], SceneModel.magnets[2]) = 0

(***************************************************************************)
(* C25.  Processing a player-joined or a player-left message commits the   *)
(* snapshot it carries and does not affect the animation state: the        *)
(* in-flight movement list, the requested frames and the pending           *)
(* completion callbacks are the same before and after.                     *)
(***************************************************************************)
RosterStep ==
    DispatchStep /\ lastMsg'.type \in {"PLAYER_JOINED", "PLAYER_LEFT"}

C25_RosterCommitKeepsAnimation ==
    [][ RosterStep
        => ( /\ gameState' = RealRef(nmsg')
             /\ SceneModel' = expected'
             /\ UNCHANGED <<animatingMagnets, animationFrameId, rafQueue,
                            nextRafId, seqs>> ) ]_vars

\* A roster message has been handled while a movement sequence was running.
C25_Witness ==
    /\ lastMsg.type \in {"PLAYER_JOINED", "PLAYER_LEFT"}
    /\ gameState = RealRef(nmsg)
    /\ animatingMagnets # <<>>
    /\ \E k \in DOMAIN rafQueue : rafQueue[k].kind = "move"

(***************************************************************************)
(* C26.  An attempted placement performs no optimistic local mutation:     *)
(* handing a place-token command to the transport, or rejecting the point  *)
(* locally, leaves the Scene Model, its token set and the local player's   *)
(* remaining-token count as they were.                                     *)
(***************************************************************************)
C26_NoOptimisticMutation ==
    [][ PointerStep
        => ( /\ SceneModel' = SceneModel
             /\ UNCHANGED <<gameState, heap, myPlayerId, animatingMagnets>> ) ]_vars

\* A place-token command has just been handed over, and the local player
\* still has the token to place.
C26_Witness ==
    /\ pointer = "inside"
    /\ outbox # <<>>
    /\ outbox[Len(outbox)] = "PLACE_MAGNET"
    /\ gameState # NullRef
    /\ LET i == FindIndex(SceneModel.players, myPlayerId)
       IN  i # 0 /\ SceneModel.players[i].remainingMagnets = 1
    /\ canPlaceMagnet

(***************************************************************************)
(* C27.  The transport's notifications (connect, disconnect, error) change *)
(* the connectivity indicator only: they never change the Scene Model,     *)
(* myPlayerId, the live-session guard, the animation state or the visible  *)
(* screen.                                                                 *)
(***************************************************************************)
\* This step is an event of the socket or of a reconnect timer.
TransportStep ==
    <<socket, isConnected, reconnectAttempts, reconnectTimers, connectionStatus>>'
        # <<socket, isConnected, reconnectAttempts, reconnectTimers, connectionStatus>>

C27_NotificationsTouchIndicatorOnly ==
    [][ TransportStep
        => ( /\ SceneModel' = SceneModel
             /\ UNCHANGED <<gameState, heap, myPlayerId, currentSessionId,
                            animatingMagnets, animationFrameId, rafQueue, nextRafId,
                            seqs, visibleScreens, modalHidden>> ) ]_vars

\* The socket has closed in the middle of a movement sequence on the game screen.
C27_Witness ==
    /\ connectionStatus = "disconnected"
    /\ socket = "none"
    /\ currentSessionId # "none"
    /\ gameState # NullRef
    /\ animatingMagnets # <<>>
    /\ rafQueue # <<>>
    /\ visibleScreens = {"game"}

(***************************************************************************)
(* C28.  A create request with an empty or whitespace-only player name,    *)
(* and a join request with an empty player name or an empty session code,  *)
(* is rejected before any network call: no command is handed to the        *)
(* transport and no state changes.                                         *)
(***************************************************************************)
LobbyStep == requests' = requests + 1

Blank(text) == \A i \in DOMAIN text : text[i] \in {" ", "\t"}

Malformed(req) ==
    \/ (req.kind = "create" /\ Blank(req.name))
    \/ (req.kind = "join" /\ (req.name = <<>> \/ req.code = <<>>))

C28_MalformedRequestRejected ==
    [][ (LobbyStep /\ Malformed(request'))
        => ( /\ outbox' = outbox
             /\ UNCHANGED <<currentSessionId, gameState, heap, myPlayerId,
                            animatingMagnets, animationFrameId, rafQueue,
                            visibleScreens, modalHidden, notice, socket,
                            isConnected, reconnectAttempts>> ) ]_vars

\* A create request with a name of one space has been turned down.
C28_Witness ==
    /\ request.kind = "create"
    /\ request.name = <<" ">>
    /\ outbox = <<>>
    /\ alertText = "Please enter your name"

(***************************************************************************)
(* C29.  The screens follow the server's messages: session-created shows   *)
(* the waiting room; session-joined shows the waiting room, or the game    *)
(* screen when the snapshot it carries is playing; game-started shows the  *)
(* game screen; leaving shows the lobby; and exactly one of the lobby, the *)
(* waiting room and the game screen is visible at any time.                *)
(***************************************************************************)
OneScreenVisible ==
    Cardinality(visibleScreens \cap {"lobby", "waiting", "game"}) = 1

ScreenFollowsMessage ==
    /\ (DispatchStep /\ lastMsg'.type = "SESSION_CREATED")
          => visibleScreens' = {"waiting"}
    /\ (DispatchStep /\ lastMsg'.type = "SESSION_JOINED")
          => visibleScreens' = IF expected'.status = "playing" THEN {"game"}
                                                               ELSE {"waiting"}
    /\ (DispatchStep /\ lastMsg'.type = "GAME_STARTED")
          => visibleScreens' = {"game"}
    /\ (Len(outbox') = Len(outbox) + 1 /\ outbox'[Len(outbox')] = "LEAVE_SESSION")
          => visibleScreens' = {"lobby"}

C29_ScreensFollowMessages ==
    /\ []OneScreenVisible
    /\ [][ScreenFollowsMessage]_vars

\* A join of a running game has gone straight to the game screen.
C29_Witness ==
    /\ lastMsg.type = "SESSION_JOINED"
    /\ expected.status = "playing"
    /\ visibleScreens = {"game"}
    /\ nmsg > 1

(***************************************************************************)
(* C30.  Automatic reconnection is bounded: the reconnect counter stays    *)
(* within 0..5; a close while the counter is below 5 increments it and     *)
(* schedules exactly one reconnect, a close at 5 schedules none; an open   *)
(* resets the counter to 0; so at most 5 reconnect attempts are made       *)
(* between two opens.                                                      *)
(***************************************************************************)
CloseStep == socket # "none" /\ socket' = "none"

OpenStep == socket # "open" /\ socket' = "open"

ReconnectBounded ==
    /\ reconnectAttempts \in 0..5
    /\ reconnects \in 0..5
    /\ reconnectTimers \in 0..1

ReconnectSteps ==
    /\ (CloseStep /\ reconnectAttempts < 5)
          => ( /\ reconnectAttempts' = reconnectAttempts + 1
               /\ reconnectTimers' = reconnectTimers + 1 )
    /\ (CloseStep /\ reconnectAttempts >= 5)
          => UNCHANGED <<reconnectAttempts, reconnectTimers>>
    /\ OpenStep => (reconnectAttempts' = 0 /\ reconnectTimers' = reconnectTimers)

C30_ReconnectionBounded ==
    /\ []ReconnectBounded
    /\ [][ReconnectSteps]_vars

\* The fifth reconnect attempt has failed: the client has given up.
C30_Witness ==
    /\ reconnectAttempts = 5
    /\ reconnects = 5
    /\ socket = "none"
    /\ reconnectTimers = 0

(***************************************************************************)
(* C33.  A movement whose token is not in the snapshot is skipped, when    *)
(* the synthetic snapshot is built and at every tick: the other movements  *)
(* of the batch are still animated, the sequence still completes once the  *)
(* fixed duration has elapsed, and the real snapshot is still committed.   *)
(***************************************************************************)
\* Some movement of the list names a token the snapshot does not have.
HasUnknownToken(anims, magnets) ==
    \E k \in DOMAIN anims : FindIndex(magnets, anims[k].magnetId) = 0

UnknownSkippedWhenPlaced ==
    (MovementPlacedStep /\ HasUnknownToken(animatingMagnets', expected'.magnets))
        => ( /\ SyntheticCommitted
             /\ OneMovementSequenceStarted
             /\ Len(animatingMagnets') = lastMsg'.batch
             /\ \E k \in DOMAIN animatingMagnets' :
                   LET i == FindIndex(SceneModel'.magnets, animatingMagnets'[k].magnetId)
                   IN  /\ i # 0
                       /\ SceneModel'.magnets[i].position = animatingMagnets'[k].fromPos )

UnknownSkippedAtTick ==
    ( /\ MoveTicksOnly
      /\ gameState # NullRef
      /\ animatingMagnets # <<>>
      /\ HasUnknownToken(animatingMagnets, SceneModel.magnets)
      /\ animatingMagnets' # <<>> )
        => ( /\ gameState' = gameState
             /\ Len(SceneModel'.magnets) = Len(SceneModel.magnets)
             /\ \A k \in DOMAIN animatingMagnets' :
                   LET anim == animatingMagnets'[k]
                       i == AnimatedToken(SceneModel'.magnets, animatingMagnets', k)
                   IN  /\ anim.progress > animatingMagnets[k].progress
                       /\ i # 0 =>
                             SceneModel'.magnets[i].position =
                                [x |-> Interpolate(anim.fromPos.x, anim.toPos.x,
                                                   anim.progress),
                                 y |-> Interpolate(anim.fromPos.y, anim.toPos.y,
                                                   anim.progress)] )

UnknownStillCompletes ==
    \A c \in DOMAIN rafQueue :
        LET cb == rafQueue[c]
        IN  ( /\ now' # now
              /\ Len(rafQueue) = 1
              /\ cb.kind = "move"
              /\ ~seqs[cb.seq].stale
              /\ gameState # NullRef
              /\ HasUnknownToken(animatingMagnets, SceneModel.magnets)
              /\ now' - cb.startTime >= ANIMATION_DURATION )
            => ( /\ seqs'[cb.seq].state = "done"
                 /\ seqs'[cb.seq].cb = 1
                 /\ rafQueue' = <<>>
                 /\ animatingMagnets' = <<>>
                 /\ gameState' = cb.snap
                 /\ SceneModel' = heap[cb.snap] )

C33_UnknownTokenSkipped ==
    [][ /\ UnknownSkippedWhenPlaced
        /\ UnknownSkippedAtTick
        /\ UnknownStillCompletes ]_vars

\* The sequence of a batch that names an unknown token has ticked, completed
\* and committed the real snapshot of its message.
C33_Witness ==
    /\ lastMsg.type = "MAGNET_PLACED"
    /\ lastMsg.batch = 2
    /\ seqs # <<>>
    /\ seqs[Len(seqs)].msg = nmsg
    /\ seqs[Len(seqs)].state = "done"
    /\ seqs[Len(seqs)].ticks >= 2
    /\ seqs[Len(seqs)].cb = 1
    /\ gameState = RealRef(nmsg)
    /\ SceneModel = expected

(***************************************************************************)
(* C34.  A turn-changed message is never lost: once it is processed, the   *)
(* Scene Model's current turn is the one the message names in every later  *)
(* state until a later message changes it, also when an animation that an  *)
(* earlier message started completes in between.                           *)
(***************************************************************************)
C34_TurnChangeKept ==
    (lastMsg.type = "TURN_CHANGED" /\ gameState # NullRef /\ currentSessionId # "none")
        => SceneModel.currentTurnPlayerId = lastMsg.arg

(***************************************************************************)
(* C35.  The Scene Model is non-null only while a session is locally       *)
(* active: in every state, gameState # null implies that the live-session  *)
(* guard is non-null.                                                      *)
(***************************************************************************)
C35_SceneOnlyInSession == gameState # NullRef => currentSessionId # "none"

(***************************************************************************)
(* C36.  The snapshot a movement sequence commits on completion is exactly *)
(* the one its token-placed message carried: the synthetic snapshot is a   *)
(* separate object, so the reset to the origins, the writes of the ticks   *)
(* and a turn patch during the animation leave the real snapshot as it is. *)
(***************************************************************************)
\* The real snapshot a pending movement loop is going to commit stays as it is.
PendingRealUntouched ==
    \A c \in DOMAIN rafQueue :
        (rafQueue[c].kind = "move" /\ rafQueue[c].snap \in DOMAIN heap')
            => heap'[rafQueue[c].snap] = heap[rafQueue[c].snap]

RealStoredAsCarried ==
    MovementPlacedStep
        => ( /\ heap'[RealRef(nmsg')] = expected'
             /\ gameState' # RealRef(nmsg') )

CommitsTheCarried ==
    \A c \in DOMAIN rafQueue :
        ( /\ rafQueue[c].kind = "move"
          /\ seqs[rafQueue[c].seq].cb = 0
          /\ seqs'[rafQueue[c].seq].cb = 1
          /\ gameState' = rafQueue[c].snap )
            => SceneModel' = heap[rafQueue[c].snap]

C36_RealSnapshotUntouched ==
    [][ PendingRealUntouched /\ RealStoredAsCarried /\ CommitsTheCarried ]_vars

\* A movement loop is pending whose synthetic snapshot has been moved by a
\* tick and patched by a turn change, and whose real snapshot has neither.
C36_Witness ==
    /\ gameState # NullRef
    /\ lastMsg.type = "TURN_CHANGED"
    /\ \E c \in DOMAIN rafQueue :
          /\ rafQueue[c].kind = "move"
          /\ gameState = rafQueue[c].snap + 1
          /\ seqs[rafQueue[c].seq].ticks > 0
          /\ heap[rafQueue[c].snap].currentTurnPlayerId # SceneModel.currentTurnPlayerId
          /\ heap[rafQueue[c].snap].magnets # SceneModel.magnets

(***************************************************************************)
(* C37.  Leaving resets the local state (Scene Model, myPlayerId, session  *)
(* guard, animation state, screen) whether or not the leave command could  *)
(* be transmitted: when the socket is not open, send transmits nothing and *)
(* raises no error, and the reset still completes.                         *)
(***************************************************************************)
\* This step hands a leave command to the transport.
LeaveCommandStep ==
    Len(outbox') = Len(outbox) + 1 /\ outbox'[Len(outbox')] = "LEAVE_SESSION"

C37_LeaveResetsWhateverTheSocket ==
    [][ LeaveCommandStep
        => ( /\ gameState' = NullRef
             /\ myPlayerId' = "none"
             /\ currentSessionId' = "none"
             /\ animatingMagnets' = <<>>
             /\ animationFrameId' = 0
             /\ visibleScreens' = {"lobby"}
             /\ wire' = IF socket = "open" THEN Append(wire, "LEAVE_SESSION") ELSE wire
             /\ UNCHANGED <<socket, isConnected, reconnectAttempts, reconnectTimers,
                            connectionStatus>> ) ]_vars

\* The user has left a session in the middle of a movement sequence while
\* the socket was closed: nothing was transmitted, everything is reset.
C37_Witness ==
    /\ outbox # <<>>
    /\ outbox[Len(outbox)] = "LEAVE_SESSION"
    /\ wire = <<>>
    /\ socket = "none"
    /\ nmsg > 1
    /\ seqs # <<>>
    /\ gameState = NullRef
    /\ myPlayerId = "none"
    /\ currentSessionId = "none"
    /\ animatingMagnets = <<>>
    /\ visibleScreens = {"lobby"}

(***************************************************************************)
(* C31: auto-reconnect after disconnect().                                 *)
(***************************************************************************)
\* A step in which the client makes a new WebSocket.
SocketCreated == socket # "connecting" /\ socket' = "connecting"

\* C31: once disconnect() has been called, no step makes a new socket,
\* whatever opens and closes came before the call and even when a reconnect
\* timer set by an earlier close is pending at the call.
C31_NoReconnectAfterDisconnect == [][disconnects > 0 => ~SocketCreated]_vars

\* While a socket that disconnect() closed awaits its close event, the client
\* holds no other socket and no timer is pending: the late close event drops
\* no live socket.
ClosingIsAlone == closing > 0 => socket = "none" /\ reconnectTimers = 0

(***************************************************************************)
(* C32: frames that are no JSON, and handlers that throw.                  *)
(***************************************************************************)
\* A step in which handleMessage received a frame, and the text of the frame.
FrameStep == Len(rawLog') = Len(rawLog) + 1
FrameText == rawLog'[Len(rawLog')]

\* The texts that are no JSON: the empty text and the object cut short.
NotJSON == {<<>>, <<"{", "type", ":", "ERROR">>}

\* The text whose value makes the handling throw: null has no member to read.
Throwing == {<<"null">>}

ConnectionKept ==
    /\ socket = "open"
    /\ UNCHANGED <<socket, isConnected, reconnectAttempts, reconnectTimers,
                   connectionStatus, closing>>

DispatchedAs(type, text) ==
    /\ nmsg' = nmsg + 1
    /\ lastMsg'.type = type
    /\ notice' = text

\* C32: a frame that is not valid JSON reaches no handler and changes no
\* state of the client, and so does a frame whose handling throws; in both
\* cases the socket stays open, and a frame that arrives later is dispatched
\* in the step that receives it, whatever frames came before it.
C32_BadFrameDropped ==
    [][FrameStep =>
         /\ ConnectionKept
         /\ FrameText \in NotJSON \cup Throwing => UNCHANGED client
         /\ FrameText = ObjectText("type", "ERROR") => DispatchedAs("ERROR", "error")
         /\ FrameText = ObjectText("type", "PLACEMENT_INVALID") =>
                DispatchedAs("PLACEMENT_INVALID", "reason")]_vars

\* A frame that is no JSON or throws, then an ERROR frame that was dispatched
\* over the same open socket.
C32_Witness ==
    /\ Len(rawLog) = 2
    /\ rawLog[1] \in NotJSON \cup Throwing
    /\ rawLog[2] = ObjectText("type", "ERROR")
    /\ lastMsg.type = "ERROR"
    /\ nmsg = 1
    /\ socket = "open"
    /\ reconnects = 0

====
